---- MODULE Spec2Model ----
(***************************************************************************)
(* Model of the Go rules engine (getGroupInfo, makeMove,                   *)
(* calculateTerritory) and of the game session that drives it (App).       *)
(*                                                                         *)
(* A grid is a sequence of rows, each a sequence of cells; the code's      *)
(* grid[y][x] (0-based) is grid[y+1][x+1] here.                            *)
(***************************************************************************)
EXTENDS Integers, Sequences, FiniteSets, TLC

VARIABLES
  \* the rules-engine specifications: the board passed in, the call made
  rgrid, rcall,
  \* App: useState values (appGrid is the state named grid)
  appGrid, turn, captures, history, phase, config, scoreResult, isAiThinking,
  territoryMap, isReviewMode, reviewIndex,
  \* App: the puzzle states
  currentTsumego, tsumegoNode, tsumegoStatus,
  \* App: boardHistoryRef.current
  boardHistoryRef,
  \* what the current handleIntersectionClick closes over
  clickEnv,
  \* the performAiMove requests in flight, each with what it closes over
  aiTasks,
  \* the performAiMove run between a rejected move and its forced pass
  aiRun,
  \* the last executeMove call and its return value
  lastExec,
  \* the handler steps taken so far (MaxSteps in all)
  steps,
  \* history variable: for each length n of the move list of the game in
  \* progress, at index n + 1, the grid, captures and turn the session had
  \* when the history of this game last had that length (<<>> when it never had)
  shownAt

rvars == <<rgrid, rcall>>

svars == <<appGrid, turn, captures, history, phase, config, scoreResult, isAiThinking,
           territoryMap, isReviewMode, reviewIndex, currentTsumego, tsumegoNode,
           tsumegoStatus, boardHistoryRef, clickEnv,
           aiTasks, aiRun, lastExec, steps, shownAt>>

vars == <<rvars, svars>>

----------------------------------------------------------------------------
(* Bounds of the rules-engine specifications *)

\* side of the boards the rules-engine specifications enumerate
GridSize == 3

\* the selector is run on the boards with at most MaxAiStones stones and on
\* crowded boards
MaxAiStones == 2

\* the smallest side of a board that can hold the 20 stones that end the
\* selector's opening
LargeSize == 5

\* the number of sequences of Math.random() values offered to a call
NumStreams == 3

\* getAIMove is run on the boards with at most MaxRemoteStones stones
MaxRemoteStones == 1

----------------------------------------------------------------------------
(* types.ts *)

Null == "null"

Black == "black"

White == "white"

StoneColor == {Black, White}

CellValues == {Null, Black, White}

Pt(x, y) == [x |-> x, y |-> y]

----------------------------------------------------------------------------
(* goLogic: helpers *)

Range(s) == {s[i] : i \in 1..Len(s)}

createEmptyGrid(size) == [r \in 1..size |-> [c \in 1..size |-> Null]]

getOpponent(color) == IF color = Black THEN White ELSE Black

isOnBoard(x, y, size) == x >= 0 /\ x < size /\ y >= 0 /\ y < size

Cell(grid, x, y) == grid[y + 1][x + 1]

SetCell(grid, x, y, v) == [grid EXCEPT ![y + 1][x + 1] = v]

\* the neighbour list both getGroupInfo and makeMove build: +x, -x, +y, -y
Neighbors(x, y) == <<Pt(x + 1, y), Pt(x - 1, y), Pt(x, y + 1), Pt(x, y - 1)>>

\* the `${x},${y}` key of the visited and liberties sets
Key(p) == <<p.x, p.y>>

\* s.split(',').map(Number) back to a point
ParseKey(k) == [x |-> k[1], y |-> k[2]]

\* Set.add on an insertion-ordered JS Set, kept as a duplicate-free sequence
SetAdd(seq, e) == IF e \in Range(seq) THEN seq ELSE Append(seq, e)

\* grid.map(row => [...row]): a new outer array with new rows, so that writes
\* to the copy never reach the original (shared = FALSE)
cloneGridShallow(grid) == [grid |-> grid, shared |-> TRUE]

cloneGrid(grid) == [grid |-> grid, shared |-> FALSE]

----------------------------------------------------------------------------
(* goLogic: getGroupInfo *)

RECURSIVE ScanNeighbors(_, _, _, _, _)
\* the for-loop over the four neighbours of one dequeued stone
ScanNeighbors(grid, color, ns, i, st) ==
  IF i > Len(ns) THEN st
  ELSE LET n == ns[i] IN
    IF ~isOnBoard(n.x, n.y, Len(grid))
      THEN ScanNeighbors(grid, color, ns, i + 1, st)
    ELSE IF Cell(grid, n.x, n.y) = Null
      THEN ScanNeighbors(grid, color, ns, i + 1,
             [st EXCEPT !.liberties = SetAdd(@, Key(n))])
    ELSE IF Cell(grid, n.x, n.y) = color /\ Key(n) \notin st.visited
      THEN ScanNeighbors(grid, color, ns, i + 1,
             [st EXCEPT !.visited = @ \cup {Key(n)}, !.queue = Append(@, n)])
    ELSE ScanNeighbors(grid, color, ns, i + 1, st)

RECURSIVE GroupLoop(_, _, _)
\* the while (queue.length > 0) loop
GroupLoop(grid, color, st) ==
  IF st.queue = <<>> THEN st
  ELSE LET p == Head(st.queue)
           st1 == [st EXCEPT !.queue = Tail(@), !.group = Append(@, p)]
       IN GroupLoop(grid, color,
                    ScanNeighbors(grid, color, Neighbors(p.x, p.y), 1, st1))

getGroupInfoNoVisited(grid, x, y) ==
  LET color == Cell(grid, x, y) IN
  IF color = Null THEN [group |-> <<>>, liberties |-> <<>>]
  ELSE LET st == GroupLoop(grid, color,
                  [queue |-> <<Pt(x, y)>>, group |-> <<>>,
                   liberties |-> <<>>, visited |-> {}])
       IN [group |-> st.group,
           liberties |-> [i \in 1..Len(st.liberties) |-> ParseKey(st.liberties[i])]]

getGroupInfo(grid, x, y) ==
  LET color == Cell(grid, x, y) IN
  IF color = Null THEN [group |-> <<>>, liberties |-> <<>>]
  ELSE LET st == GroupLoop(grid, color,
                  [queue |-> <<Pt(x, y)>>, group |-> <<>>,
                   liberties |-> <<>>, visited |-> {Key(Pt(x, y))}])
       IN [group |-> st.group,
           liberties |-> [i \in 1..Len(st.liberties) |-> ParseKey(st.liberties[i])]]

----------------------------------------------------------------------------
(* goLogic: makeMove *)

RECURSIVE RemoveStones(_, _, _)
\* group.forEach(stone => nextGrid[stone.y][stone.x] = null)
RemoveStones(grid, group, i) ==
  IF i > Len(group) THEN grid
  ELSE RemoveStones(SetCell(grid, group[i].x, group[i].y, Null), group, i + 1)

RECURSIVE CaptureLoopCountGroups(_, _, _, _)
CaptureLoopCountGroups(acc, opponent, ns, i) ==
  IF i > Len(ns) THEN acc
  ELSE LET n == ns[i] IN
    IF isOnBoard(n.x, n.y, Len(acc.grid)) /\ Cell(acc.grid, n.x, n.y) = opponent
      THEN LET gi == getGroupInfo(acc.grid, n.x, n.y) IN
           IF Len(gi.liberties) = 0
             THEN CaptureLoopCountGroups([grid |-> RemoveStones(acc.grid, gi.group, 1),
                                          captures |-> acc.captures + 1],
                                         opponent, ns, i + 1)
             ELSE CaptureLoopCountGroups(acc, opponent, ns, i + 1)
      ELSE CaptureLoopCountGroups(acc, opponent, ns, i + 1)

RECURSIVE CaptureLoop(_, _, _, _)
\* neighbors.forEach: capture every opponent group left without a liberty
CaptureLoop(acc, opponent, ns, i) ==
  IF i > Len(ns) THEN acc
  ELSE LET n == ns[i] IN
    IF isOnBoard(n.x, n.y, Len(acc.grid)) /\ Cell(acc.grid, n.x, n.y) = opponent
      THEN LET gi == getGroupInfo(acc.grid, n.x, n.y) IN
           IF Len(gi.liberties) = 0
             THEN CaptureLoop([grid |-> RemoveStones(acc.grid, gi.group, 1),
                               captures |-> acc.captures + Len(gi.group)],
                              opponent, ns, i + 1)
             ELSE CaptureLoop(acc, opponent, ns, i + 1)
      ELSE CaptureLoop(acc, opponent, ns, i + 1)

makeMoveSuicideFirst(currentGrid, x, y, color) ==
  LET size == Len(currentGrid) IN
  IF ~isOnBoard(x, y, size) \/ Cell(currentGrid, x, y) # Null
    THEN [success |-> FALSE, newGrid |-> currentGrid, captures |-> 0,
          argGrid |-> currentGrid]
  ELSE
    LET placed == SetCell(currentGrid, x, y, color)
        acc == CaptureLoop([grid |-> placed, captures |-> 0],
                           getOpponent(color), Neighbors(x, y), 1)
    IN IF Len(getGroupInfo(placed, x, y).liberties) = 0
         THEN [success |-> FALSE, newGrid |-> currentGrid, captures |-> 0,
               argGrid |-> currentGrid]
         ELSE [success |-> TRUE, newGrid |-> acc.grid, captures |-> acc.captures,
               argGrid |-> currentGrid]

makeMoveOverwrite(currentGrid, x, y, color) ==
  LET size == Len(currentGrid) IN
  IF ~isOnBoard(x, y, size)
    THEN [success |-> FALSE, newGrid |-> currentGrid, captures |-> 0,
          argGrid |-> currentGrid]
  ELSE
    LET placed == SetCell(currentGrid, x, y, color)
        acc == CaptureLoop([grid |-> placed, captures |-> 0],
                           getOpponent(color), Neighbors(x, y), 1)
    IN IF Len(getGroupInfo(acc.grid, x, y).liberties) = 0 /\ acc.captures = 0
         THEN [success |-> FALSE, newGrid |-> currentGrid, captures |-> 0,
               argGrid |-> currentGrid]
         ELSE [success |-> TRUE, newGrid |-> acc.grid, captures |-> acc.captures,
               argGrid |-> currentGrid]

makeMoveNoSuicideRule(currentGrid, x, y, color) ==
  LET size == Len(currentGrid) IN
  IF ~isOnBoard(x, y, size) \/ Cell(currentGrid, x, y) # Null
    THEN [success |-> FALSE, newGrid |-> currentGrid, captures |-> 0,
          argGrid |-> currentGrid]
  ELSE
    LET placed == SetCell(currentGrid, x, y, color)
        acc == CaptureLoop([grid |-> placed, captures |-> 0],
                           getOpponent(color), Neighbors(x, y), 1)
    IN [success |-> TRUE, newGrid |-> acc.grid, captures |-> acc.captures,
        argGrid |-> currentGrid]

\* The result carries, besides the three fields the code returns, argGrid:
\* the contents of the caller's array (currentGrid) when the call returns.
\* On failure the code returns the reference currentGrid itself.
makeMove(currentGrid, x, y, color) ==
  LET size == Len(currentGrid) IN
  IF ~isOnBoard(x, y, size) \/ Cell(currentGrid, x, y) # Null
    THEN [success |-> FALSE, newGrid |-> currentGrid, captures |-> 0,
          argGrid |-> currentGrid]
  ELSE
    LET clone == cloneGrid(currentGrid)
        placed == SetCell(clone.grid, x, y, color)
        acc == CaptureLoop([grid |-> placed, captures |-> 0],
                           getOpponent(color), Neighbors(x, y), 1)
        nextGrid == acc.grid
        arg == IF clone.shared THEN nextGrid ELSE currentGrid
        selfLiberties == getGroupInfo(nextGrid, x, y).liberties
    IN IF Len(selfLiberties) = 0 /\ acc.captures = 0
         THEN [success |-> FALSE, newGrid |-> arg, captures |-> 0, argGrid |-> arg]
         ELSE [success |-> TRUE, newGrid |-> nextGrid, captures |-> acc.captures,
               argGrid |-> arg]

----------------------------------------------------------------------------
(* goLogic: calculateTerritory *)

RECURSIVE FloodNeighbors(_, _, _, _)
\* the for-loop over the neighbours of one point of the region being filled
FloodNeighbors(grid, ns, i, st) ==
  IF i > Len(ns) THEN st
  ELSE LET n == ns[i] IN
    IF ~isOnBoard(n.x, n.y, Len(grid))
      THEN FloodNeighbors(grid, ns, i + 1, st)
    ELSE IF Cell(grid, n.x, n.y) # Null
      THEN FloodNeighbors(grid, ns, i + 1,
             [st EXCEPT !.touchColors = @ \cup {Cell(grid, n.x, n.y)}])
    ELSE IF Key(n) \notin st.visited
      THEN FloodNeighbors(grid, ns, i + 1,
             [st EXCEPT !.visited = @ \cup {Key(n)}, !.queue = Append(@, n)])
    ELSE FloodNeighbors(grid, ns, i + 1, st)

RECURSIVE FloodLoop(_, _)
\* while (qIndex < queue.length): qIndex is 0-based, queue[qIndex] is
\* st.queue[st.qIndex + 1]
FloodLoop(grid, st) ==
  IF ~(st.qIndex < Len(st.queue)) THEN st
  ELSE LET p == st.queue[st.qIndex + 1]
           st1 == [st EXCEPT !.qIndex = @ + 1, !.region = Append(@, p)]
       IN FloodLoop(grid, FloodNeighbors(grid, Neighbors(p.x, p.y), 1, st1))

\* region.forEach(p => map[p.y][p.x] = tag): every point of the region gets
\* the same tag, the other cells keep their value
PaintRegion(map, region, tag) ==
  [r \in 1..Len(map) |-> [c \in 1..Len(map[r]) |->
     IF Pt(c - 1, r - 1) \in Range(region) THEN tag ELSE map[r][c]]]

\* "Determine ownership": only a region touching exactly one colour is owned
OwnRegionAnyTouch(acc, fl) ==
  IF Black \in fl.touchColors
    THEN [acc EXCEPT !.black = @ + Len(fl.region),
                     !.map = PaintRegion(@, fl.region, 1),
                     !.visited = fl.visited]
  ELSE IF White \in fl.touchColors
    THEN [acc EXCEPT !.white = @ + Len(fl.region),
                     !.map = PaintRegion(@, fl.region, 2),
                     !.visited = fl.visited]
  ELSE [acc EXCEPT !.visited = fl.visited]

OwnRegion(acc, fl) ==
  IF Cardinality(fl.touchColors) = 1
    THEN IF Black \in fl.touchColors
           THEN [acc EXCEPT !.black = @ + Len(fl.region),
                            !.map = PaintRegion(@, fl.region, 1),
                            !.visited = fl.visited]
           ELSE [acc EXCEPT !.white = @ + Len(fl.region),
                            !.map = PaintRegion(@, fl.region, 2),
                            !.visited = fl.visited]
    ELSE [acc EXCEPT !.visited = fl.visited]

RECURSIVE TerritoryScan(_, _, _)
\* the double loop for y, for x; k = y * size + x
TerritoryScan(grid, k, acc) ==
  LET size == Len(grid) IN
  IF k >= size * size THEN acc
  ELSE LET x == k % size
           y == k \div size
       IN IF Cell(grid, x, y) # Null \/ Key(Pt(x, y)) \in acc.visited
            THEN TerritoryScan(grid, k + 1, acc)
            ELSE LET fl == FloodLoop(grid,
                             [queue |-> <<Pt(x, y)>>, qIndex |-> 0, region |-> <<>>,
                              touchColors |-> {},
                              visited |-> acc.visited \cup {Key(Pt(x, y))}])
                 IN TerritoryScan(grid, k + 1, OwnRegion(acc, fl))

RECURSIVE CountStones(_, _, _)
\* "Add live stones to score": the number of stones of one colour
CountStones(grid, k, color) ==
  LET size == Len(grid) IN
  IF k >= size * size THEN 0
  ELSE (IF Cell(grid, k % size, k \div size) = color THEN 1 ELSE 0)
       + CountStones(grid, k + 1, color)

\* a flood fill that paints the owned regions on the board itself
TerritoryArgPainted(grid, map) ==
  [r \in 1..Len(grid) |-> [c \in 1..Len(grid[r]) |->
     IF map[r][c] = 1 THEN Black ELSE IF map[r][c] = 2 THEN White ELSE grid[r][c]]]

\* The contents of the caller's array when calculateTerritory returns: the
\* function assigns to its own map, region, queue, touchColors and visited
\* only, grid[..][..] is read and never assigned.
TerritoryArg(grid, map) == grid

\* The result carries, besides the three fields the code returns, argGrid:
\* the contents of the caller's array (grid) when the call returns.
calculateTerritory(grid) ==
  LET size == Len(grid)
      acc == TerritoryScan(grid, 0,
               [map |-> [r \in 1..size |-> [c \in 1..size |-> 0]],
                black |-> 0, white |-> 0, visited |-> {}])
  IN [black |-> acc.black + CountStones(grid, 0, Black),
      white |-> acc.white + CountStones(grid, 0, White),
      territoryMap |-> acc.map,
      argGrid |-> TerritoryArg(grid, acc.map)]

----------------------------------------------------------------------------
(* aiService: the local move selector (isEye, getShapeScore, getLocalMove) *)

\* types.ts Difficulty, weakest first
Difficulties ==
  <<"novice", "entry", "beginner", "elementary", "intermediate", "advanced",
    "master", "grandmaster">>

\* Scores are numbers of hundredths: Math.random() is drawn as k/100 with k in
\* 0..RandomUnit-1, so that Math.random() * noiseRange is the integer
\* k * noiseRange and every bonus of the code is multiplied by RandomUnit.
RandomUnit == 100

Diagonals(x, y) == <<Pt(x + 1, y + 1), Pt(x - 1, y - 1), Pt(x - 1, y + 1), Pt(x + 1, y - 1)>>

\* the orthogonal neighbours in the order of getShapeScore
ShapeNeighbors(x, y) == <<Pt(x + 1, y), Pt(x, y + 1), Pt(x - 1, y), Pt(x, y - 1)>>

\* the number of points of the list ps that are on the board and whose cell
\* is one of the values vs
CountCells(grid, ps, vs) ==
  Cardinality({i \in 1..Len(ps) :
     /\ isOnBoard(ps[i].x, ps[i].y, Len(grid))
     /\ Cell(grid, ps[i].x, ps[i].y) \in vs})

isEye(grid, x, y, color) ==
  /\ CountCells(grid, Neighbors(x, y), CellValues \ {color}) = 0
  /\ CountCells(grid, Diagonals(x, y), CellValues \ {color, Null}) < 2

\* the inner forEach of the hane check: opponent stones next to (nx, ny)
HaneCount(grid, nx, ny, opponent) == CountCells(grid, ShapeNeighbors(nx, ny), {opponent})

RECURSIVE HaneLoop(_, _, _, _)
\* the outer forEach of the hane check, 15 for every pair found
HaneLoop(grid, ns, i, opponent) ==
  IF i > Len(ns) THEN 0
  ELSE (IF /\ isOnBoard(ns[i].x, ns[i].y, Len(grid))
           /\ Cell(grid, ns[i].x, ns[i].y) = opponent
          THEN 15 * HaneCount(grid, ns[i].x, ns[i].y, opponent)
          ELSE 0)
       + HaneLoop(grid, ns, i + 1, opponent)

getShapeScore(grid, x, y, color) ==
  (IF CountCells(grid, ShapeNeighbors(x, y), {color}) >= 3 THEN -40 ELSE 0)
  + HaneLoop(grid, ShapeNeighbors(x, y), 1, getOpponent(color))

noiseRangeGrandmasterNoisy(difficulty) ==
  CASE difficulty = "novice" -> 80
    [] difficulty = "entry" -> 60
    [] difficulty = "beginner" -> 50
    [] difficulty = "elementary" -> 30
    [] difficulty = "intermediate" -> 15
    [] difficulty = "advanced" -> 8
    [] OTHER -> 3

noiseRange(difficulty) ==
  CASE difficulty = "novice" -> 80
    [] difficulty = "entry" -> 60
    [] difficulty = "beginner" -> 50
    [] difficulty = "elementary" -> 30
    [] difficulty = "intermediate" -> 15
    [] difficulty = "advanced" -> 8
    [] difficulty = "master" -> 3
    [] OTHER -> 0

\* A. capturing stones and B. self-atari, applied to the running score
TacticalScore(score, nCaptures, myLibCount, difficulty) ==
  LET captured == IF nCaptures > 0
                    THEN score + (800 + nCaptures * 100) * RandomUnit
                         - (IF myLibCount = 1 /\ nCaptures = 1 THEN 300 * RandomUnit ELSE 0)
                    ELSE score
  IN IF myLibCount = 1
       THEN (IF nCaptures = 0
               THEN captured - (IF difficulty \in {"master", "grandmaster", "advanced"}
                                  THEN 5000 ELSE 200) * RandomUnit
               ELSE captured)
     ELSE IF myLibCount = 2 /\ difficulty \in {"master", "grandmaster"}
       THEN captured - 20 * RandomUnit
     ELSE captured

\* one neighbour of C: the bonus after looking at the group preGroup
SavedBy(preGroup, myLibCount, bonus) ==
  IF Len(preGroup.liberties) = 1 /\ myLibCount > 1
    THEN 600 + Len(preGroup.group) * 50
    ELSE bonus

RECURSIVE SavedGroupLoop(_, _, _, _, _, _)
\* C. save own stones: savedGroupBonus after the loop over the neighbours
SavedGroupLoop(grid, aiColor, myLibCount, ns, i, bonus) ==
  IF i > Len(ns) THEN bonus
  ELSE IF /\ isOnBoard(ns[i].x, ns[i].y, Len(grid))
          /\ Cell(grid, ns[i].x, ns[i].y) = aiColor
    THEN SavedGroupLoop(grid, aiColor, myLibCount, ns, i + 1,
           SavedBy(getGroupInfo(grid, ns[i].x, ns[i].y), myLibCount, bonus))
  ELSE SavedGroupLoop(grid, aiColor, myLibCount, ns, i + 1, bonus)

\* one neighbour of D: the atari bonus and the pressure bonus it adds
AtariBy(acc, enemyGroup, preEnemyGroup) ==
  [bonus |-> acc.bonus + (IF Len(enemyGroup.liberties) = 1
                            THEN 150 + Len(enemyGroup.group) * 20 ELSE 0),
   pressure |-> acc.pressure + (IF Len(preEnemyGroup.liberties) > Len(enemyGroup.liberties)
                                  THEN 10 ELSE 0)]

RECURSIVE AtariLoop(_, _, _, _, _, _)
\* D. atari attack: atariAttackBonus and the sum of the pressure bonuses
AtariLoop(grid, newGrid, opponent, ns, i, acc) ==
  IF i > Len(ns) THEN acc
  ELSE IF /\ isOnBoard(ns[i].x, ns[i].y, Len(grid))
          /\ Cell(newGrid, ns[i].x, ns[i].y) = opponent
    THEN AtariLoop(grid, newGrid, opponent, ns, i + 1,
           AtariBy(acc, getGroupInfo(newGrid, ns[i].x, ns[i].y),
                   getGroupInfo(grid, ns[i].x, ns[i].y)))
  ELSE AtariLoop(grid, newGrid, opponent, ns, i + 1, acc)

Min(a, b) == IF a < b THEN a ELSE b

Abs(a) == IF a < 0 THEN -a ELSE a

\* E. opening theory, for the distances dx, dy of the point to the edges
OpeningBy(dx, dy) ==
  (IF (dx = 2 \/ dy = 2) /\ (dx = 3 \/ dy = 3) THEN 120
   ELSE IF dx = 3 \/ dy = 3 THEN 100
   ELSE IF dx = 2 \/ dy = 2 THEN 80
   ELSE 0)
  + (IF dx = 0 \/ dy = 0 THEN -100 ELSE 0)
  + (IF dx = 1 \/ dy = 1 THEN -50 ELSE 0)
  + (IF dx > 4 /\ dy > 4 THEN -10 ELSE 0)

OpeningScore(x, y, size) == OpeningBy(Min(x, size - 1 - x), Min(y, size - 1 - y))

\* F. proximity, for the Manhattan distance dist to the last move
ProximityBy(dist) == IF dist <= 2 THEN 40 ELSE IF dist <= 4 THEN 20 ELSE 0

\* lastMove is <<>> for null and <<point>> otherwise
ProximityScore(x, y, lastMove) ==
  IF lastMove = <<>> THEN 0
  ELSE ProximityBy(Abs(x - lastMove[1].x) + Abs(y - lastMove[1].y))

\* E, F and G together
StrategicScore(grid, x, y, ctx) ==
  (IF ctx.isOpening THEN OpeningScore(x, y, Len(grid)) ELSE 0)
  + (IF ~ctx.isOpening THEN ProximityScore(x, y, ctx.lastMove) ELSE 0)
  + (IF ctx.difficulty \in {"advanced", "master", "grandmaster"}
       THEN getShapeScore(grid, x, y, ctx.aiColor) ELSE 0)

\* H. the eye penalty and I. the endgame dame penalty
LateScore(score, quiet, looksLikeEye, isEndGame) ==
  LET eyed == IF looksLikeEye /\ quiet.captures = 0
                THEN score - 10000 * RandomUnit ELSE score
  IN IF /\ isEndGame
        /\ quiet.captures = 0 /\ quiet.saved = 0 /\ quiet.atari = 0
        /\ eyed < 10 * RandomUnit
       THEN eyed - 5 * RandomUnit
       ELSE eyed

\* the score of one legal candidate from the parts computed for it
SumScore(grid, x, y, ctx, tactical, saved, atari, nCaptures, looksLikeEye) ==
  LateScore(tactical
            + (saved + atari.pressure + atari.bonus
               + StrategicScore(grid, x, y, ctx)) * RandomUnit,
            [captures |-> nCaptures, saved |-> saved, atari |-> atari.bonus],
            looksLikeEye, ctx.isEndGame)

\* lines 134-270 for a candidate whose simulation result succeeded; noise is
\* Math.random() * noiseRange in hundredths
CandidateScore(grid, x, y, ctx, noise, looksLikeEye, result, myLibCount) ==
  SumScore(grid, x, y, ctx,
           TacticalScore(noise, result.captures, myLibCount, ctx.difficulty),
           SavedGroupLoop(grid, ctx.aiColor, myLibCount, Neighbors(x, y), 1, 0),
           AtariLoop(grid, result.newGrid, getOpponent(ctx.aiColor), Neighbors(x, y), 1,
                     [bonus |-> 0, pressure |-> 0]),
           result.captures, looksLikeEye)

\* a loop body that scores the points where the simulation failed as well
SimulatedKeepFailed(st, x, y, ctx, looksLikeEye, result) ==
  [grid |-> result.argGrid,
   draws |-> st.draws + 1,
   validMoves |-> Append(st.validMoves,
      [x |-> x, y |-> y,
       score |-> CandidateScore(result.argGrid, x, y, ctx,
                   ctx.rnd[st.draws + 1] * noiseRange(ctx.difficulty),
                   looksLikeEye, result,
                   Len(getGroupInfo(result.newGrid, x, y).liberties))])]

\* a loop body whose simulation writes the stone and the captures to the
\* caller's board
SimulatedOnBoard(st, x, y, ctx, looksLikeEye, result) ==
  IF ~result.success THEN [st EXCEPT !.grid = result.argGrid]
  ELSE [grid |-> result.newGrid,
        draws |-> st.draws + 1,
        validMoves |-> Append(st.validMoves,
           [x |-> x, y |-> y,
            score |-> CandidateScore(result.argGrid, x, y, ctx,
                        ctx.rnd[st.draws + 1] * noiseRange(ctx.difficulty),
                        looksLikeEye, result,
                        Len(getGroupInfo(result.newGrid, x, y).liberties))])]

\* the body of the double loop for an empty point, given the outcome of the
\* simulation; st.grid is the content of the caller's array
Simulated(st, x, y, ctx, looksLikeEye, result) ==
  IF ~result.success THEN [st EXCEPT !.grid = result.argGrid]
  ELSE [grid |-> result.argGrid,
        draws |-> st.draws + 1,
        validMoves |-> Append(st.validMoves,
           [x |-> x, y |-> y,
            score |-> CandidateScore(result.argGrid, x, y, ctx,
                        ctx.rnd[st.draws + 1] * noiseRange(ctx.difficulty),
                        looksLikeEye, result,
                        Len(getGroupInfo(result.newGrid, x, y).liberties))])]

\* a selector that scores occupied points too
ScanPointOccupied(st, x, y, ctx) ==
  IF Cell(st.grid, x, y) = ctx.aiColor THEN st
  ELSE Simulated(st, x, y, ctx, isEye(st.grid, x, y, ctx.aiColor),
                 makeMoveOverwrite(st.grid, x, y, ctx.aiColor))

ScanPoint(st, x, y, ctx) ==
  IF Cell(st.grid, x, y) # Null THEN st
  ELSE Simulated(st, x, y, ctx, isEye(st.grid, x, y, ctx.aiColor),
                 makeMove(st.grid, x, y, ctx.aiColor))

RECURSIVE ScanPoints(_, _, _)
\* for y, for x: the point number k is (k % size, k \div size)
ScanPoints(st, k, ctx) ==
  LET size == Len(st.grid) IN
  IF k >= size * size THEN st
  ELSE ScanPoints(ScanPoint(st, k % size, k \div size, ctx), k + 1, ctx)

\* validMoves.sort((a, b) => b.score - a.score): descending, and stable, so
\* that equal scores keep the order of the scan
SortRank(v, i) ==
  1 + Cardinality({j \in 1..Len(v) :
        v[j].score > v[i].score \/ (v[j].score = v[i].score /\ j < i)})

SortByScore(v) == [p \in 1..Len(v) |-> v[CHOOSE i \in 1..Len(v) : SortRank(v, i) = p]]

\* movesCount > size * size * 0.85, in hundredths
isEndGameAt(movesCount, size) == movesCount * 100 > size * size * 85

isOpeningAt(movesCount, size) == movesCount < (IF size = 19 THEN 50 ELSE 20)

passThreshold(difficulty, isEndGame) == IF isEndGame THEN 5 ELSE -500

\* a selection that lets 'advanced' choose among three candidates
topNAdvancedThree(difficulty, n) ==
  CASE difficulty = "novice" -> n
    [] difficulty = "entry" -> 20
    [] difficulty = "beginner" -> 10
    [] difficulty = "elementary" -> 5
    [] difficulty = "intermediate" -> 3
    [] difficulty = "advanced" -> 3
    [] difficulty = "master" -> 2
    [] OTHER -> 1

\* n is validMoves.length
topN(difficulty, n) ==
  CASE difficulty = "novice" -> n
    [] difficulty = "entry" -> 20
    [] difficulty = "beginner" -> 10
    [] difficulty = "elementary" -> 5
    [] difficulty = "intermediate" -> 3
    [] difficulty = "advanced" -> 2
    [] difficulty = "master" -> 2
    [] OTHER -> 1

\* 'PASS'
PassAnswer == [pass |-> TRUE, x |-> 0, y |-> 0]

PointAnswer(m) == [pass |-> FALSE, x |-> m.x, y |-> m.y]

\* Math.floor(Math.random() * n) for the draw r of Math.random()
FloorRandom(r, n) == (r * n) \div RandomUnit

\* the 0-based index into candidates, n = candidates.length
selectedIndex(difficulty, r, n) ==
  IF difficulty = "grandmaster" THEN 0 ELSE FloorRandom(r, n)

\* lines 292-318 for the sorted validMoves
Select(sorted, difficulty, r) ==
  PointAnswer(sorted[1 + selectedIndex(difficulty, r,
                           Min(topN(difficulty, Len(sorted)), Len(sorted)))])

\* a selector that never passes while a legal candidate exists
DecideNeverPass(st, sorted, ctx) ==
  [move |-> IF Len(sorted) = 0 THEN PassAnswer
            ELSE Select(sorted, ctx.difficulty, ctx.rnd[st.draws + 1]),
   validMoves |-> sorted,
   isEndGame |-> ctx.isEndGame,
   argGrid |-> st.grid]

\* lines 274-318 after the scan st; sorted is validMoves after the sort
Decide(st, sorted, ctx) ==
  [move |-> IF Len(sorted) = 0 THEN PassAnswer
            ELSE IF sorted[1].score < passThreshold(ctx.difficulty, ctx.isEndGame) * RandomUnit
              THEN PassAnswer
            ELSE Select(sorted, ctx.difficulty, ctx.rnd[st.draws + 1]),
   validMoves |-> sorted,
   isEndGame |-> ctx.isEndGame,
   argGrid |-> st.grid]

Scanned(st, ctx) == Decide(st, SortByScore(st.validMoves), ctx)

\* the number of stones on the board (grid[r][c] truthy)
MovesCount(grid) == CountStones(grid, 0, Black) + CountStones(grid, 0, White)

LocalContext(aiColor, difficulty, lastMove, rnd, movesCount, size) ==
  [aiColor |-> aiColor, difficulty |-> difficulty, lastMove |-> lastMove, rnd |-> rnd,
   isOpening |-> isOpeningAt(movesCount, size),
   isEndGame |-> isEndGameAt(movesCount, size)]

LocalRun(grid, ctx) ==
  Scanned(ScanPoints([grid |-> grid, draws |-> 0, validMoves |-> <<>>], 0, ctx), ctx)

\* rnd is the sequence of the values Math.random() returns during the call.
\* The result carries, besides the move the code returns, the sorted
\* validMoves, isEndGame and argGrid: the contents of the caller's array
\* (grid) when the call returns.
getLocalMove(grid, aiColor, difficulty, lastMove, rnd) ==
  LocalRun(grid, LocalContext(aiColor, difficulty, lastMove, rnd,
                              MovesCount(grid), Len(grid)))

----------------------------------------------------------------------------
(* aiService: the remote move and getAIMove *)

\* a JSON member that is not a number (absent, a string, ...) and one that is
NotNumber == [isNumber |-> FALSE, value |-> 0]

JsonNumber(n) == [isNumber |-> TRUE, value |-> n]

\* the parsed object: pass is the truthiness of its member pass
JsonObject(pass, x, y) == [isNull |-> FALSE, pass |-> pass, x |-> x, y |-> y]

JsonNull == [isNull |-> TRUE, pass |-> FALSE, x |-> NotNumber, y |-> NotNumber]

\* an exception, and a returned value
Thrown == [threw |-> TRUE, value |-> PassAnswer]

Returned(v) == [threw |-> FALSE, value |-> v]

\* JSON.parse(response.text || "{}"): text.form is "empty" for a missing or
\* empty text, "malformed" for text that is no JSON, "null" for the text
\* null, and "object" for the text of an object with the members of text
JsonParse(text) ==
  CASE text.form = "malformed" -> Thrown
    [] text.form = "null" -> Returned(JsonNull)
    [] text.form = "empty" -> Returned(JsonObject(FALSE, NotNumber, NotNumber))
    [] OTHER -> Returned(JsonObject(text.pass, text.x, text.y))

\* the reading of the parsed result: result.pass on null throws a TypeError,
\* and two numbers are returned as a point whatever their values
ReadResult(parsed, size) ==
  IF parsed.threw \/ parsed.value.isNull THEN Thrown
  ELSE IF parsed.value.pass THEN Returned(PassAnswer)
  ELSE IF parsed.value.x.isNumber /\ parsed.value.y.isNumber
    THEN Returned([pass |-> FALSE, x |-> parsed.value.x.value, y |-> parsed.value.y.value])
  ELSE Thrown

\* response is what ai.models.generateContent settles to: a rejection
\* (kind "throw") or a response with a text
getRemoteMove(grid, hasKey, response) ==
  IF ~hasKey THEN Thrown
  ELSE IF response.kind = "throw" THEN Thrown
  ELSE ReadResult(JsonParse(response.text), Len(grid))

\* the try / catch around the remote move: remote is its outcome, local the
\* value of getLocalMove(grid, aiColor, difficulty, lastMove)
RemoteOrLocal(remote, local) ==
  IF ~remote.threw THEN Returned(remote.value) ELSE Returned(local.move)

\* onLine is navigator.onLine, hasKey the truthiness of process.env.API_KEY
getAIMove(grid, aiMode, onLine, hasKey, response, local) ==
  IF aiMode = "online" /\ onLine /\ hasKey
    THEN RemoteOrLocal(getRemoteMove(grid, hasKey, response), local)
    ELSE Returned(local.move)

----------------------------------------------------------------------------
(* Bounds of the session specification *)

\* the number of handler steps a session takes
MaxSteps == 6

\* the most AI move requests in flight at once
MaxAiTasks == 2

\* the largest handicap offered to startGame
MaxHandicap == 1

----------------------------------------------------------------------------
(* App: values of the session state *)

\* currentTsumego === null
NoTsumego == "none"

\* tsumegoNode === null: no branch under any key
NoNode == <<>>

\* config === null
NoConfig == [boardSize |-> 0, handicap |-> 0, playerColor |-> "none", komi2 |-> 0]

\* scoreResult === null
NoScore == [blackTerritory |-> 0, whiteTerritory |-> 0, blackCaptures |-> 0,
            whiteCaptures |-> 0, komi2 |-> 0, winner |-> "none", margin2 |-> 0]

\* territoryMap === undefined
NoMap == <<>>

\* the size of the board the session specification plays on
BoardSize == 9

\* the size of the grid the App state starts with and goHome restores
HomeGridSize == 19

\* the points the model's human clicks and the model's AI answers: the corner
\* where a ko fits
ClickPts == {Pt(0, 0), Pt(1, 0), Pt(0, 1), Pt(1, 1), Pt(0, 2)}

\* SetupModal.handleStart: komi is 0.5 with a handicap, else 6.5 for a white
\* and 7.5 for a black human; the model keeps twice the komi
SetupConfig(color, handicap) ==
  [boardSize |-> BoardSize, handicap |-> handicap, playerColor |-> color,
   komi2 |-> IF handicap > 0 THEN 1 ELSE IF color = White THEN 13 ELSE 15]

Configs == {SetupConfig(c, h) : c \in StoneColor, h \in 0..MaxHandicap}

getHoshiPoints(size) ==
  IF size = 9
    THEN <<Pt(2, 2), Pt(6, 2), Pt(4, 4), Pt(2, 6), Pt(6, 6)>>
  ELSE IF size = 13
    THEN <<Pt(3, 3), Pt(9, 3), Pt(6, 6), Pt(3, 9), Pt(9, 9)>>
  ELSE <<Pt(3, 3), Pt(9, 3), Pt(15, 3), Pt(3, 9), Pt(9, 9), Pt(15, 9),
         Pt(3, 15), Pt(9, 15), Pt(15, 15)>>

Move(x, y, color, n) == [x |-> x, y |-> y, color |-> color, captures |-> n, pass |-> FALSE]

PassMove(color) == [x |-> -1, y |-> -1, color |-> color, captures |-> 0, pass |-> TRUE]

\* JSON.stringify(grid): the array of rows of JSON literals, null for an empty
\* cell and the quoted colour for a stone
JsonCell(c) == IF c = Null THEN "null" ELSE IF c = Black THEN "\"black\"" ELSE "\"white\""

Stringify(g) == [r \in 1..Len(g) |-> [c \in 1..Len(g[r]) |-> JsonCell(g[r][c])]]

\* a game the saved-games list can hold: written by handleManualSave on the
\* human's (white's) turn after black's ko capture at (0, 0)
KoGame ==
  [config |-> SetupConfig(White, 0),
   history |-> <<Move(1, 1, Black, 0), Move(1, 0, White, 0), Move(0, 2, Black, 0),
                 Move(0, 1, White, 0), Move(0, 0, Black, 1)>>]

SavedGames == {KoGame}

----------------------------------------------------------------------------
(* App: replayGame *)

\* one non-pass move of moves.forEach, res being makeMove(tempGrid, ...)
ReplayStep(acc, move, res) ==
  IF res.success
    THEN [grid |-> res.newGrid,
          captures |-> [acc.captures EXCEPT ![move.color] = @ + res.captures],
          boardHistory |-> Append(acc.boardHistory, Stringify(res.newGrid))]
    ELSE acc

RECURSIVE ReplayLoop(_, _, _)
\* moves.forEach
ReplayLoop(moves, i, acc) ==
  IF i > Len(moves) THEN acc
  ELSE IF moves[i].pass THEN ReplayLoop(moves, i + 1, acc)
  ELSE ReplayLoop(moves, i + 1,
         ReplayStep(acc, moves[i],
                    makeMove(acc.grid, moves[i].x, moves[i].y, moves[i].color)))

\* the object replayGame returns, acc being the state after the loop
ReplayResult(acc, moves, targetConfig) ==
  [grid |-> acc.grid, captures |-> acc.captures,
   turn |-> IF Len(moves) > 0
              THEN getOpponent(moves[Len(moves)].color)
              ELSE IF targetConfig.handicap > 0 THEN White ELSE Black,
   boardHistory |-> acc.boardHistory]

replayGame(moves, targetConfig) ==
  ReplayResult(ReplayLoop(moves, 1,
                 [grid |-> createEmptyGrid(targetConfig.boardSize),
                  captures |-> [black |-> 0, white |-> 0],
                  boardHistory |-> <<>>]),
               moves, targetConfig)

----------------------------------------------------------------------------
(* App: executeMove, endGame, calculateScore *)

\* The values a handler reads come from the render that created it (env); its
\* functional updates (setHistory(prev => ..), setCaptures(prev => ..)) and the
\* ref boardHistoryRef act on the live state (live).  The result is the live
\* state after the call, the value returned (ret) and whether setGrid ran.

\* calculateScore after its config check, t being calculateTerritory(grid)
ScoreWith(env, live, isFinal, t) ==
  IF isFinal
    THEN [live EXCEPT
            !.territoryMap = t.territoryMap,
            !.scoreResult =
               [blackTerritory |-> t.black, whiteTerritory |-> t.white,
                blackCaptures |-> env.captures.black,
                whiteCaptures |-> env.captures.white,
                komi2 |-> env.config.komi2,
                winner |-> IF 2 * t.black > 2 * t.white + env.config.komi2
                             THEN Black ELSE White,
                margin2 |-> IF 2 * t.black > 2 * t.white + env.config.komi2
                              THEN 2 * t.black - (2 * t.white + env.config.komi2)
                              ELSE (2 * t.white + env.config.komi2) - 2 * t.black]]
    ELSE [live EXCEPT !.territoryMap = t.territoryMap]

calculateScore(env, live, isFinal) ==
  IF env.config = NoConfig THEN live
  ELSE ScoreWith(env, live, isFinal, calculateTerritory(env.grid))

\* endGame; performSave writes to localStorage only
endGame(env, live) == calculateScore(env, [live EXCEPT !.phase = "scoring"], TRUE)

\* executeMove's pass branch, live being the state after the territoryMap reset
\* a pass that records the move and leaves the turn with the passing colour
ExecutePassKeepTurn(env, live, color) ==
  [ret |-> TRUE, why |-> "ok", gridSet |-> FALSE,
   live |-> IF env.lastPass
              THEN endGame(env, [live EXCEPT !.history = Append(@, PassMove(color))])
              ELSE [live EXCEPT !.history = Append(@, PassMove(color))]]

ExecutePass(env, live, color) ==
  [ret |-> TRUE, why |-> "ok", gridSet |-> FALSE,
   live |-> IF env.lastPass
              THEN endGame(env, [live EXCEPT !.history = Append(@, PassMove(color)),
                                             !.turn = getOpponent(color)])
              ELSE [live EXCEPT !.history = Append(@, PassMove(color)),
                                !.turn = getOpponent(color)]]

ExecuteStonePushFirst(live, result, boardHash, x, y, color) ==
  IF ~result.success
    THEN [ret |-> FALSE, why |-> "illegal", gridSet |-> FALSE, live |-> live]
  ELSE IF boardHash \in Range(live.boardHistoryRef)
    THEN [ret |-> FALSE, why |-> "superko", gridSet |-> FALSE,
          live |-> [live EXCEPT !.boardHistoryRef = Append(@, boardHash)]]
  ELSE [ret |-> TRUE, why |-> "ok", gridSet |-> TRUE,
        live |-> [live EXCEPT
                    !.grid = result.newGrid,
                    !.captures = [@ EXCEPT ![color] = @ + result.captures],
                    !.history = Append(@, Move(x, y, color, result.captures)),
                    !.turn = getOpponent(color),
                    !.boardHistoryRef = Append(@, boardHash)]]

\* executeMove's stone branch, result being makeMove(grid, x, y, color) and
\* boardHash JSON.stringify(result.newGrid)
ExecuteStone(live, result, boardHash, x, y, color) ==
  IF ~result.success
    THEN [ret |-> FALSE, why |-> "illegal", gridSet |-> FALSE, live |-> live]
  ELSE IF boardHash \in Range(live.boardHistoryRef)
    THEN [ret |-> FALSE, why |-> "superko", gridSet |-> FALSE, live |-> live]
  ELSE [ret |-> TRUE, why |-> "ok", gridSet |-> TRUE,
        live |-> [live EXCEPT
                    !.grid = result.newGrid,
                    !.captures = [@ EXCEPT ![color] = @ + result.captures],
                    !.history = Append(@, Move(x, y, color, result.captures)),
                    !.turn = getOpponent(color),
                    !.boardHistoryRef = Append(@, boardHash)]]

\* if (territoryMap) setTerritoryMap(undefined)
ClearMap(env, live) == IF env.hasMap THEN [live EXCEPT !.territoryMap = NoMap] ELSE live

\* makeMove(grid, x, y, color) with the hash of its newGrid
HashedMove(result) == [result |-> result, boardHash |-> Stringify(result.newGrid)]

ExecuteHashed(live, h, x, y, color) == ExecuteStone(live, h.result, h.boardHash, x, y, color)

executeMove(env, live, x, y, color, isPass) ==
  IF isPass
    THEN ExecutePass(env, ClearMap(env, live), color)
    ELSE ExecuteHashed(ClearMap(env, live), HashedMove(makeMove(env.grid, x, y, color)),
                       x, y, color)

----------------------------------------------------------------------------
(* App: the state a handler's setters act on, and what a render closes over *)

Live ==
  [grid |-> appGrid, turn |-> turn, captures |-> captures, history |-> history,
   phase |-> phase, scoreResult |-> scoreResult, territoryMap |-> territoryMap,
   boardHistoryRef |-> boardHistoryRef, currentTsumego |-> currentTsumego,
   tsumegoNode |-> tsumegoNode, tsumegoStatus |-> tsumegoStatus]

SetLive(l) ==
  /\ appGrid' = l.grid
  /\ turn' = l.turn
  /\ captures' = l.captures
  /\ history' = l.history
  /\ phase' = l.phase
  /\ scoreResult' = l.scoreResult
  /\ territoryMap' = l.territoryMap
  /\ boardHistoryRef' = l.boardHistoryRef
  /\ currentTsumego' = l.currentTsumego
  /\ tsumegoNode' = l.tsumegoNode
  /\ tsumegoStatus' = l.tsumegoStatus

LastIsPass(h) == Len(h) > 0 /\ h[Len(h)].pass

\* what executeMove, endGame and calculateScore of the current render read
CurEnv ==
  [grid |-> appGrid, turn |-> turn, lastPass |-> LastIsPass(history),
   captures |-> captures, config |-> config, hasMap |-> territoryMap # NoMap]

NoRun == [none |-> TRUE]

\* the first n moves of h and of g are the same moves
SamePrefix(h, g, n) == n <= Len(h) /\ n <= Len(g) /\ SubSeq(h, 1, n) = SubSeq(g, 1, n)

\* shownAt after a handler: what is shown now, at the length the history now
\* has, and what was shown at the shorter lengths of the same game; newGame:
\* the handler has set another game's config (startGame, loadSavedGame)
Remembered(newGame) ==
  [k \in 1..(Len(history') + 1) |->
     IF k = Len(history') + 1
       THEN <<[grid |-> appGrid', captures |-> captures', turn |-> turn']>>
     ELSE IF ~newGame /\ k <= Len(shownAt) /\ SamePrefix(history, history', k - 1)
       THEN shownAt[k]
     ELSE <<>>]

NoExec == [op |-> "none", ret |-> TRUE, why |-> "ok"]

\* The render after a handler's batch of updates, and its effects:
\*  - useEffect [turn, phase, config, grid, isReviewMode] starts performAiMove,
\*    which closes over that render and sets isAiThinking;
\*  - useCallback [phase, isAiThinking, config, turn, isReviewMode, tsumegoNode,
\*    tsumegoStatus] re-creates
\*    handleIntersectionClick, which closes over executeMove (grid,
\*    territoryMap) of the render that created it.
\* gridSet / configSet: the handler called setGrid / setConfig with a new
\* object; thinkingMid, tasksMid: isAiThinking and the requests in flight after
\* the handler's own updates.
Render(gridSet, configSet, thinkingMid, tasksMid) ==
  LET effectDeps == \/ turn' # turn
                    \/ phase' # phase
                    \/ configSet
                    \/ gridSet
                    \/ isReviewMode' # isReviewMode
      fire == /\ effectDeps
              /\ phase' = "playing"
              /\ config' # NoConfig
              /\ ~isReviewMode'
              /\ turn' # config'.playerColor
      callbackDeps == \/ phase' # phase
                      \/ thinkingMid # isAiThinking
                      \/ configSet
                      \/ turn' # turn
                      \/ isReviewMode' # isReviewMode
                      \/ tsumegoNode' # tsumegoNode
                      \/ tsumegoStatus' # tsumegoStatus
                      \/ (fire /\ ~thinkingMid)
      task == [grid |-> appGrid', turn |-> turn', lastPass |-> LastIsPass(history'),
               captures |-> captures', config |-> config',
               hasMap |-> territoryMap' # NoMap]
  IN /\ shownAt' = Remembered(configSet)
     /\ fire => Len(tasksMid) < MaxAiTasks
     /\ isAiThinking' = (thinkingMid \/ fire)
     /\ aiTasks' = IF fire THEN Append(tasksMid, task) ELSE tasksMid
     /\ clickEnv' = IF callbackDeps
                      THEN [grid |-> appGrid', hasMap |-> territoryMap' # NoMap]
                      ELSE clickEnv

Idle == aiRun = NoRun

\* one more handler step of the session
Step == steps < MaxSteps /\ steps' = steps + 1 /\ UNCHANGED rvars

----------------------------------------------------------------------------
(* App: handlers *)

\* startGame(newConfig)
StartGameLive(newConfig) ==
  LET hoshiPoints == getHoshiPoints(newConfig.boardSize)
      n == IF newConfig.handicap < Len(hoshiPoints)
             THEN newConfig.handicap ELSE Len(hoshiPoints)
      pointsToPlace == SubSeq(hoshiPoints, 1, n)
      empty == createEmptyGrid(newConfig.boardSize)
  IN [grid |-> [r \in 1..Len(empty) |-> [c \in 1..Len(empty) |->
                  IF newConfig.handicap > 0 /\ Pt(c - 1, r - 1) \in Range(pointsToPlace)
                    THEN Black ELSE Null]],
      turn |-> IF newConfig.handicap > 0 THEN White ELSE Black,
      captures |-> [black |-> 0, white |-> 0],
      history |-> IF newConfig.handicap > 0
                    THEN [i \in 1..n |-> Move(pointsToPlace[i].x, pointsToPlace[i].y, Black, 0)]
                    ELSE <<>>,
      phase |-> "playing",
      scoreResult |-> NoScore,
      territoryMap |-> NoMap,
      boardHistoryRef |-> <<>>,
      currentTsumego |-> currentTsumego,
      tsumegoNode |-> tsumegoNode,
      tsumegoStatus |-> tsumegoStatus]

\* HomeScreen onNewGame
OpenSetup ==
  /\ Idle /\ Step /\ phase = "home"
  /\ SetLive([Live EXCEPT !.phase = "setup"])
  /\ UNCHANGED <<config, isReviewMode, reviewIndex, aiRun>>
  /\ lastExec' = NoExec
  /\ Render(FALSE, FALSE, isAiThinking, aiTasks)

\* SetupModal onCancel
CancelSetup ==
  /\ Idle /\ Step /\ phase = "setup"
  /\ SetLive([Live EXCEPT !.phase = "home"])
  /\ UNCHANGED <<config, isReviewMode, reviewIndex, aiRun>>
  /\ lastExec' = NoExec
  /\ Render(FALSE, FALSE, isAiThinking, aiTasks)

\* SetupModal onStart = startGame, with the config object the modal builds
StartGame ==
  /\ Idle /\ Step /\ phase = "setup"
  /\ \E newConfig \in Configs :
       /\ SetLive(StartGameLive(newConfig))
       /\ config' = newConfig
  /\ isReviewMode' = FALSE
  /\ UNCHANGED <<reviewIndex, aiRun>>
  /\ lastExec' = NoExec
  /\ Render(TRUE, TRUE, isAiThinking, aiTasks)

\* restartGame, from the end-of-game panel (phase finished or scoring)
RestartGame ==
  /\ Idle /\ Step /\ phase \in {"finished", "scoring"}
  /\ UNCHANGED <<config, reviewIndex, aiRun>>
  /\ lastExec' = NoExec
  /\ IF config # NoConfig /\ phase = "finished"
       THEN /\ SetLive(StartGameLive(config))
            /\ isReviewMode' = FALSE
            /\ Render(TRUE, FALSE, isAiThinking, aiTasks)
       ELSE /\ SetLive(Live)
            /\ isReviewMode' = isReviewMode
            /\ Render(FALSE, FALSE, isAiThinking, aiTasks)

\* what a call r of executeMove leaves behind, and the render after the
\* handler: op names the call, thinkingMid and tasksMid are as for Render
Executed(r, op, thinkingMid, tasksMid) ==
  /\ SetLive(r.live)
  /\ lastExec' = [op |-> op, ret |-> r.ret, why |-> r.why]
  /\ Render(r.gridSet, FALSE, thinkingMid, tasksMid)

\* handleIntersectionClick(x, y) in a game; GoBoard calls it when the board
\* is interactive
Click ==
  /\ Idle /\ Step
  /\ ~(isAiThinking \/ isReviewMode)
  /\ phase = "playing" /\ tsumegoStatus = "playing"
  /\ config.playerColor = turn
  /\ UNCHANGED <<config, isReviewMode, reviewIndex, aiRun>>
  /\ \E p \in ClickPts :
       Executed(executeMove(clickEnv, Live, p.x, p.y, turn, FALSE), "move",
                isAiThinking, aiTasks)

\* handlePass; the button is disabled off the human's turn and while the AI
\* is thinking
HandlePass ==
  /\ Idle /\ Step
  /\ phase = "playing" /\ ~isReviewMode
  /\ config.playerColor = turn /\ ~isAiThinking
  /\ UNCHANGED <<config, isReviewMode, reviewIndex, aiRun>>
  /\ Executed(executeMove(CurEnv, Live, 0, 0, turn, TRUE), "pass", isAiThinking, aiTasks)

\* what getAIMove may resolve to
AiAnswers == {PassAnswer} \cup {[pass |-> FALSE, x |-> p.x, y |-> p.y] : p \in ClickPts}

RemoveAt(s, i) == [j \in 1..(Len(s) - 1) |-> IF j < i THEN s[j] ELSE s[j + 1]]

\* performAiMove after its first executeMove call r: done when the call
\* returned true, else "AI illegal move, forcing pass" is still to come
AiExecuted(env, rest, r, op) ==
  IF r.ret
    THEN /\ aiRun' = NoRun
         /\ Executed(r, op, FALSE, rest)
    ELSE /\ aiRun' = env
         /\ SetLive(r.live)
         /\ lastExec' = [op |-> op, ret |-> r.ret, why |-> r.why]
         /\ aiTasks' = rest
         /\ shownAt' = Remembered(FALSE)
         /\ UNCHANGED <<isAiThinking, clickEnv>>

\* performAiMove after the await: the request aiTasks[i] resolves to aiMove
AiResolved ==
  /\ Idle
  /\ UNCHANGED <<config, isReviewMode, reviewIndex>>
  /\ \E i \in 1..Len(aiTasks), aiMove \in AiAnswers :
       AiExecuted(aiTasks[i], RemoveAt(aiTasks, i),
                  executeMove(aiTasks[i], Live, aiMove.x, aiMove.y, aiTasks[i].turn,
                              aiMove.pass),
                  IF aiMove.pass THEN "pass" ELSE "move")

\* a resolution counted among the steps of the session
AiResolve == Step /\ AiResolved

\* a resolution of a session whose human steps alone are counted
AiResolveLive == AiResolved /\ UNCHANGED <<steps, rvars>>

\* performAiMove without its fallback after a rejected move
AiForcePassDropped ==
  /\ aiRun # NoRun
  /\ aiRun' = NoRun
  /\ UNCHANGED <<steps, rvars>>
  /\ UNCHANGED <<config, isReviewMode, reviewIndex>>
  /\ SetLive(Live)
  /\ lastExec' = NoExec
  /\ Render(FALSE, FALSE, FALSE, aiTasks)

\* performAiMove: executeMove(0, 0, turn, true) after a rejected move, then
\* setIsAiThinking(false)
AiForcePass ==
  /\ aiRun # NoRun
  /\ aiRun' = NoRun
  /\ UNCHANGED <<steps, rvars>>
  /\ UNCHANGED <<config, isReviewMode, reviewIndex>>
  /\ Executed(executeMove(aiRun, Live, 0, 0, aiRun.turn, TRUE), "pass", FALSE, aiTasks)

\* handleUndo's updates, restoredState being replayGame(newHistory, config)
UndoLive(live, newHistory, restoredState) ==
  [live EXCEPT !.territoryMap = NoMap,
               !.history = newHistory,
               !.grid = restoredState.grid,
               !.captures = restoredState.captures,
               !.turn = restoredState.turn,
               !.boardHistoryRef = restoredState.boardHistory,
               !.scoreResult = NoScore,
               !.phase = "playing"]

\* handleUndo in a game; the button is disabled while the AI is thinking and
\* when only the handicap stones are left
HandleUndo ==
  /\ Idle /\ Step
  /\ phase = "playing" /\ ~isReviewMode
  /\ ~isAiThinking /\ config # NoConfig /\ Len(history) > config.handicap
  /\ LET stepsToUndo == IF Len(history) - 2 < config.handicap THEN 1 ELSE 2
         newHistory == SubSeq(history, 1, Len(history) - stepsToUndo)
     IN SetLive(UndoLive(Live, newHistory, replayGame(newHistory, config)))
  /\ UNCHANGED <<config, isReviewMode, reviewIndex, aiRun>>
  /\ lastExec' = NoExec
  /\ Render(TRUE, FALSE, isAiThinking, aiTasks)

\* toggleEstimation
ToggleEstimation ==
  /\ Idle /\ Step
  /\ phase = "playing" /\ ~isReviewMode
  /\ SetLive(IF territoryMap # NoMap
               THEN [Live EXCEPT !.territoryMap = NoMap]
               ELSE calculateScore(CurEnv, Live, FALSE))
  /\ UNCHANGED <<config, isReviewMode, reviewIndex, aiRun>>
  /\ lastExec' = NoExec
  /\ Render(FALSE, FALSE, isAiThinking, aiTasks)

\* handleResign
HandleResign ==
  /\ Idle /\ Step
  /\ phase = "playing" /\ ~isReviewMode
  /\ SetLive([Live EXCEPT !.phase = "finished",
                          !.scoreResult = [NoScore EXCEPT !.winner = getOpponent(turn)]])
  /\ UNCHANGED <<config, isReviewMode, reviewIndex, aiRun>>
  /\ lastExec' = NoExec
  /\ Render(FALSE, FALSE, isAiThinking, aiTasks)

\* enterReviewMode, from the game panel or the end-of-game panel
EnterReviewMode ==
  /\ Idle /\ Step
  /\ \/ phase = "playing" /\ ~isReviewMode
     \/ phase \in {"finished", "scoring"}
  /\ SetLive(Live)
  /\ isReviewMode' = TRUE
  /\ reviewIndex' = Len(history)
  /\ UNCHANGED <<config, aiRun>>
  /\ lastExec' = NoExec
  /\ Render(FALSE, FALSE, isAiThinking, aiTasks)

\* jumpToMove's updates, restored being replayGame(history.slice(0, index), config)
JumpLive(live, restored) ==
  [live EXCEPT !.grid = restored.grid, !.captures = restored.captures]

\* jumpToMove(index), from the review controls: first, previous, next, last
JumpToMove ==
  /\ Idle /\ Step
  /\ isReviewMode /\ phase \in {"playing", "finished", "scoring"}
  /\ config # NoConfig
  /\ \E index \in {0, reviewIndex - 1, reviewIndex + 1, Len(history)} :
       /\ ~(index < 0 \/ index > Len(history))
       /\ SetLive(JumpLive(Live, replayGame(SubSeq(history, 1, index), config)))
       /\ reviewIndex' = index
  /\ UNCHANGED <<config, isReviewMode, aiRun>>
  /\ lastExec' = NoExec
  /\ Render(TRUE, FALSE, isAiThinking, aiTasks)

\* resumeGame's updates, restored being replayGame(history, config)
ResumeLive(live, restored) ==
  [live EXCEPT !.grid = restored.grid,
               !.captures = restored.captures,
               !.turn = restored.turn,
               !.phase = "playing"]

\* resumeGame, the review panel's button while the phase is playing
ResumeGame ==
  /\ Idle /\ Step
  /\ isReviewMode /\ phase = "playing"
  /\ UNCHANGED <<config, reviewIndex, aiRun>>
  /\ lastExec' = NoExec
  /\ isReviewMode' = FALSE
  /\ IF config # NoConfig
       THEN /\ SetLive(ResumeLive(Live, replayGame(history, config)))
            /\ Render(TRUE, FALSE, isAiThinking, aiTasks)
       ELSE /\ SetLive(Live)
            /\ Render(FALSE, FALSE, isAiThinking, aiTasks)

\* loadSavedGame's updates, restored being replayGame(game.history, game.config)
LoadLive(live, game, restored) ==
  [live EXCEPT !.history = game.history,
               !.grid = restored.grid,
               !.captures = restored.captures,
               !.turn = restored.turn,
               !.phase = "playing",
               !.scoreResult = NoScore,
               !.territoryMap = NoMap]

\* loadSavedGame(game), from the saved-games list
LoadSavedGame ==
  /\ Idle /\ Step
  /\ phase \in {"home", "setup", "playing", "scoring", "finished"}
  /\ \E game \in SavedGames :
       /\ SetLive(LoadLive(Live, game, replayGame(game.history, game.config)))
       /\ config' = game.config
       /\ reviewIndex' = Len(game.history)
  /\ isReviewMode' = TRUE
  /\ UNCHANGED aiRun
  /\ lastExec' = NoExec
  /\ Render(TRUE, TRUE, isAiThinking, aiTasks)

\* goHome, from the header
GoHome ==
  /\ Idle /\ Step
  /\ phase \in {"setup", "playing", "scoring", "finished", "tsumego-playing"}
  /\ SetLive([Live EXCEPT !.phase = "home",
                          !.grid = createEmptyGrid(HomeGridSize),
                          !.scoreResult = NoScore])
  /\ config' = NoConfig
  /\ UNCHANGED <<isReviewMode, reviewIndex, aiRun>>
  /\ lastExec' = NoExec
  /\ Render(TRUE, config # NoConfig, isAiThinking, aiTasks)

\* the end-of-game panel's home button: setPhase('home')
BackHome ==
  /\ Idle /\ Step
  /\ phase \in {"finished", "scoring"}
  /\ SetLive([Live EXCEPT !.phase = "home"])
  /\ UNCHANGED <<config, isReviewMode, reviewIndex, aiRun>>
  /\ lastExec' = NoExec
  /\ Render(FALSE, FALSE, isAiThinking, aiTasks)

----------------------------------------------------------------------------
(* App: the puzzles of tsumegoData and their handlers *)

Stone(x, y, color) == [x |-> x, y |-> y, color |-> color]

\* an entry of a TsumegoNode, under the key "x,y"; no problem of
\* tsumegoProblems has a response or a next node
Branch(x, y, status) == [x |-> x, y |-> y, status |-> status]

\* tsumegoProblems: the first five of CLASSIC_PROBLEMS, in the order of the list
tsumegoProblems ==
  << [id |-> "c_atari_1", boardSize |-> 9,
      initialStones |-> <<Stone(1, 1, White),
                          Stone(1, 0, Black), Stone(0, 1, Black), Stone(2, 1, Black)>>,
      solutionTree |-> <<Branch(1, 2, "correct")>>],
     [id |-> "c_atari_2", boardSize |-> 9,
      initialStones |-> <<Stone(1, 1, White), Stone(3, 1, White),
                          Stone(1, 2, White), Stone(3, 2, White),
                          Stone(0, 1, Black), Stone(4, 1, Black),
                          Stone(0, 2, Black), Stone(4, 2, Black)>>,
      solutionTree |-> <<Branch(2, 1, "correct")>>],
     [id |-> "c_snapback_1", boardSize |-> 9,
      initialStones |-> <<Stone(0, 1, White), Stone(1, 2, White), Stone(2, 1, White),
                          Stone(0, 0, White), Stone(1, 0, White), Stone(2, 0, White),
                          Stone(3, 0, Black), Stone(3, 1, Black), Stone(3, 2, Black),
                          Stone(0, 2, Black), Stone(2, 2, Black), Stone(1, 3, Black)>>,
      solutionTree |-> <<Branch(1, 1, "correct")>>],
     [id |-> "c_ld_straight3", boardSize |-> 9,
      initialStones |-> <<Stone(0, 1, White), Stone(1, 1, White), Stone(2, 1, White),
                          Stone(3, 0, White),
                          Stone(0, 2, Black), Stone(1, 2, Black), Stone(2, 2, Black),
                          Stone(3, 1, Black), Stone(4, 0, Black)>>,
      solutionTree |-> <<Branch(1, 0, "correct")>>],
     [id |-> "c_ld_bent3", boardSize |-> 9,
      initialStones |-> <<Stone(2, 0, White), Stone(1, 1, White), Stone(0, 2, White),
                          Stone(3, 0, Black), Stone(2, 1, Black), Stone(1, 2, Black),
                          Stone(0, 3, Black)>>,
      solutionTree |-> <<Branch(0, 0, "wrong"), Branch(1, 0, "correct")>>] >>

\* tsumegoProblems.findIndex(p => p.id === id); 0 for the code's -1
IndexOfProblem(id) ==
  IF \E i \in 1..Len(tsumegoProblems) : tsumegoProblems[i].id = id
    THEN CHOOSE i \in 1..Len(tsumegoProblems) :
           /\ tsumegoProblems[i].id = id
           /\ \A j \in 1..(i - 1) : tsumegoProblems[j].id # id
    ELSE 0

\* the points the model's human clicks in a puzzle: the keys of the trees and
\* a point no tree has
TsumegoClickPts == {Pt(1, 2), Pt(2, 1), Pt(1, 1), Pt(1, 0), Pt(0, 0), Pt(8, 8)}

RECURSIVE PlaceStones(_, _, _)
\* startTsumego: problem.initialStones.forEach
PlaceStones(grid, stones, i) ==
  IF i > Len(stones) THEN grid
  ELSE LET s == stones[i]
       IN PlaceStones(IF s.y < Len(grid) /\ s.x < Len(grid)
                        THEN SetCell(grid, s.x, s.y, s.color) ELSE grid,
                      stones, i + 1)

InitialGrid(problem) ==
  PlaceStones(createEmptyGrid(problem.boardSize), problem.initialStones, 1)

\* the mock config startTsumego sets
TsumegoConfig(problem) ==
  [boardSize |-> problem.boardSize, handicap |-> 0, playerColor |-> Black, komi2 |-> 0]

\* startTsumego's updates of the board and the puzzle states
StartTsumegoLive(live, problem) ==
  [live EXCEPT !.grid = InitialGrid(problem),
               !.turn = Black,
               !.phase = "tsumego-playing",
               !.currentTsumego = problem.id,
               !.tsumegoNode = problem.solutionTree,
               !.tsumegoStatus = "playing",
               !.history = <<>>,
               !.captures = [black |-> 0, white |-> 0]]

\* startTsumego(problem) and the render after it
startTsumego(problem) ==
  /\ SetLive(StartTsumegoLive(Live, problem))
  /\ config' = TsumegoConfig(problem)
  /\ UNCHANGED <<isReviewMode, reviewIndex, aiRun>>
  /\ lastExec' = NoExec
  /\ Render(TRUE, TRUE, isAiThinking, aiTasks)

\* tsumegoNode?.[key]: the entries of the node under the key "x,y"
BranchesAt(node, x, y) == {i \in 1..Len(node) : node[i].x = x /\ node[i].y = y}

\* handleTsumegoMove(x, y) of a render holding grid and node
handleTsumegoMove(grid, node, live, x, y) ==
  LET result == makeMove(grid, x, y, Black)
      moved == [live EXCEPT !.grid = result.newGrid,
                            !.history = Append(@, Move(x, y, Black, result.captures))]
      at == BranchesAt(node, x, y)
      status == IF at = {} THEN "none" ELSE node[CHOOSE i \in at : TRUE].status
  IN IF ~result.success
       THEN [ret |-> FALSE, why |-> "illegal", gridSet |-> FALSE, live |-> live]
     ELSE IF status \in {"none", "wrong"}
       THEN [ret |-> TRUE, why |-> "ok", gridSet |-> TRUE,
             live |-> [moved EXCEPT !.tsumegoStatus = "fail"]]
     ELSE IF status = "correct"
       THEN [ret |-> TRUE, why |-> "ok", gridSet |-> TRUE,
             live |-> [moved EXCEPT !.tsumegoStatus = "success"]]
     ELSE [ret |-> TRUE, why |-> "ok", gridSet |-> TRUE, live |-> moved]

\* HomeScreen onTsumego
OpenTsumegoList ==
  /\ Idle /\ Step /\ phase = "home"
  /\ SetLive([Live EXCEPT !.phase = "tsumego-list"])
  /\ UNCHANGED <<config, isReviewMode, reviewIndex, aiRun>>
  /\ lastExec' = NoExec
  /\ Render(FALSE, FALSE, isAiThinking, aiTasks)

\* TsumegoList onBack
CloseTsumegoList ==
  /\ Idle /\ Step /\ phase = "tsumego-list"
  /\ SetLive([Live EXCEPT !.phase = "home"])
  /\ UNCHANGED <<config, isReviewMode, reviewIndex, aiRun>>
  /\ lastExec' = NoExec
  /\ Render(FALSE, FALSE, isAiThinking, aiTasks)

\* TsumegoList onSelectProblem = startTsumego
StartTsumego ==
  /\ Idle /\ Step /\ phase = "tsumego-list"
  /\ \E i \in 1..Len(tsumegoProblems) : startTsumego(tsumegoProblems[i])

\* restartGame, from the puzzle panel
RestartTsumego ==
  /\ Idle /\ Step
  /\ phase = "tsumego-playing"
  /\ ~(config # NoConfig /\ phase = "finished")
  /\ currentTsumego # NoTsumego
  /\ startTsumego(tsumegoProblems[IndexOfProblem(currentTsumego)])

\* handleNextTsumego, from the panel of a solved puzzle, for a problem that
\* is not the last of tsumegoProblems
NextTsumego ==
  /\ Idle /\ Step
  /\ phase = "tsumego-playing" /\ tsumegoStatus = "success"
  /\ currentTsumego # NoTsumego
  /\ LET currentIndex == IndexOfProblem(currentTsumego)
     IN /\ currentIndex >= 1 /\ currentIndex < Len(tsumegoProblems)
        /\ startTsumego(tsumegoProblems[currentIndex + 1])

\* handleIntersectionClick(x, y) in a puzzle; GoBoard calls it when the board
\* is interactive
TsumegoClick ==
  /\ Idle /\ Step
  /\ phase = "tsumego-playing"
  /\ ~isAiThinking /\ ~isReviewMode /\ tsumegoStatus = "playing"
  /\ turn = Black
  /\ UNCHANGED <<config, isReviewMode, reviewIndex, aiRun>>
  /\ \E p \in TsumegoClickPts :
       Executed(handleTsumegoMove(clickEnv.grid, tsumegoNode, Live, p.x, p.y),
                "tsumego", isAiThinking, aiTasks)

\* Object.keys(tsumegoNode).find: the first entry that is correct or continue
CorrectMoveKeys(node) ==
  {i \in 1..Len(node) : /\ node[i].status \in {"correct", "continue"}
                        /\ \A j \in 1..(i - 1) :
                             node[j].status \notin {"correct", "continue"}}

\* handleTsumegoHint, from the panel of a puzzle being played
TsumegoHint ==
  /\ Idle /\ Step
  /\ phase = "tsumego-playing" /\ tsumegoStatus = "playing"
  /\ UNCHANGED <<config, isReviewMode, reviewIndex, aiRun>>
  /\ IF CorrectMoveKeys(tsumegoNode) = {}
       THEN /\ SetLive(Live)
            /\ lastExec' = NoExec
            /\ Render(FALSE, FALSE, isAiThinking, aiTasks)
       ELSE LET b == tsumegoNode[CHOOSE i \in CorrectMoveKeys(tsumegoNode) : TRUE]
            IN Executed(handleTsumegoMove(appGrid, tsumegoNode, Live, b.x, b.y),
                        "tsumego", isAiThinking, aiTasks)

\* the panel of an ended puzzle: setPhase('tsumego-list')
BackToTsumegoList ==
  /\ Idle /\ Step
  /\ phase = "tsumego-playing" /\ tsumegoStatus # "playing"
  /\ SetLive([Live EXCEPT !.phase = "tsumego-list"])
  /\ UNCHANGED <<config, isReviewMode, reviewIndex, aiRun>>
  /\ lastExec' = NoExec
  /\ Render(FALSE, FALSE, isAiThinking, aiTasks)

\* the puzzle panel's exit button: setPhase('home')
ExitTsumego ==
  /\ Idle /\ Step
  /\ phase = "tsumego-playing"
  /\ SetLive([Live EXCEPT !.phase = "home"])
  /\ UNCHANGED <<config, isReviewMode, reviewIndex, aiRun>>
  /\ lastExec' = NoExec
  /\ Render(FALSE, FALSE, isAiThinking, aiTasks)

----------------------------------------------------------------------------
(* The session specification *)

SessionInit ==
  /\ appGrid = createEmptyGrid(HomeGridSize)
  /\ turn = Black
  /\ captures = [black |-> 0, white |-> 0]
  /\ history = <<>>
  /\ phase = "home"
  /\ config = NoConfig
  /\ scoreResult = NoScore
  /\ isAiThinking = FALSE
  /\ territoryMap = NoMap
  /\ isReviewMode = FALSE
  /\ reviewIndex = 0
  /\ currentTsumego = NoTsumego
  /\ tsumegoNode = NoNode
  /\ tsumegoStatus = "playing"
  /\ boardHistoryRef = <<>>
  /\ clickEnv = [grid |-> createEmptyGrid(HomeGridSize), hasMap |-> FALSE]
  /\ aiTasks = <<>>
  /\ aiRun = NoRun
  /\ lastExec = NoExec
  /\ steps = 0
  /\ shownAt = <<<<[grid |-> createEmptyGrid(HomeGridSize),
                    captures |-> [black |-> 0, white |-> 0], turn |-> Black]>>>>

----------------------------------------------------------------------------
(* Specification of single calls of the rules engine on every board of     *)
(* side GridSize                                                           *)

Coords == 0..(GridSize - 1)

\* the coordinates offered to makeMove: the board and one step off each side
CallCoords == (-1)..GridSize

Boards == [1..GridSize -> [1..GridSize -> CellValues]]

NoCall == [op |-> "none"]

RulesInit == rgrid \in Boards /\ rcall = NoCall /\ SessionInit

CallMakeMove ==
  /\ rcall = NoCall
  /\ UNCHANGED svars
  /\ \E x \in CallCoords, y \in CallCoords, c \in StoneColor :
       LET res == makeMove(rgrid, x, y, c) IN
       /\ rcall' = [op |-> "makeMove", before |-> rgrid, x |-> x, y |-> y,
                    color |-> c, res |-> res]
       /\ rgrid' = res.argGrid

CallGetGroupInfo ==
  /\ rcall = NoCall
  /\ UNCHANGED svars
  /\ \E x \in Coords, y \in Coords :
       /\ rcall' = [op |-> "getGroupInfo", before |-> rgrid, x |-> x, y |-> y,
                    res |-> getGroupInfo(rgrid, x, y)]
       /\ rgrid' = rgrid

\* calculateTerritory(grid) called twice in a row on the caller's array: res
\* is the first result, again the second
TerritoryCalled(res, again) ==
  /\ rcall' = [op |-> "calculateTerritory", before |-> rgrid,
               res |-> res, again |-> again]
  /\ rgrid' = again.argGrid

TerritoryCalledOnce(res) == TerritoryCalled(res, calculateTerritory(res.argGrid))

CallCalculateTerritory ==
  /\ rcall = NoCall
  /\ UNCHANGED svars
  /\ TerritoryCalledOnce(calculateTerritory(rgrid))

RulesNext == CallMakeMove \/ CallGetGroupInfo \/ CallCalculateTerritory

SpecRules == RulesInit /\ [][RulesNext]_vars

----------------------------------------------------------------------------
(* Specification of single calls of the local move selector, and of the   *)
(* rules engine on the same boards                                         *)

\* the longest sequence of Math.random() values one call can consume on a
\* board of side size: one per empty point and one for the selection
MaxDraws(size) == size * size + 1

\* the sequences of Math.random() values (in hundredths) offered to a call:
\* all 0, all 0.99, and sequences that vary from draw to draw
RandomStreamAt(i, size) ==
  [k \in 1..MaxDraws(size) |->
     IF i = 1 THEN 0
     ELSE IF i = 2 THEN RandomUnit - 1
     ELSE (k * (31 + 2 * i)) % RandomUnit]

RandomStreams(size) == {RandomStreamAt(i, size) : i \in 1..NumStreams}

\* the points that may be empty on the crowded boards offered to the selector
CrowdedEmpty == {Pt(0, 0), Pt(1, 1)}

\* the boards of side GridSize offered to the selector: those with at most
\* MaxAiStones stones, and the crowded ones, where every point outside
\* CrowdedEmpty has a stone
AiBoards ==
  {b \in Boards :
     \/ MovesCount(b) <= MaxAiStones
     \/ \A x \in Coords, y \in Coords : Cell(b, x, y) = Null => Pt(x, y) \in CrowdedEmpty}

\* on a board of side LargeSize: two columns of black stones, two of white
\* stones with c at their top right corner, and between them a column with
\* a at its top, b in its middle and a black stone at its bottom
LargeBoard(a, b, c) ==
  [r \in 1..LargeSize |->
     <<Black, Black,
       (IF r = 1 THEN a ELSE IF r = 3 THEN b ELSE IF r = LargeSize THEN Black ELSE Null),
       White,
       (IF r = 1 THEN c ELSE White)>>]

\* boards with 20 to 23 stones, past the opening (movesCount >= 20) and, from
\* 22 stones on, in the endgame
LargeBoards == {LargeBoard(a, b, c) : a \in CellValues, b \in CellValues, c \in {Null, White}}

\* lastMove is read outside the opening only, which boards of side GridSize
\* never leave
LastMoves(grid) == IF Len(grid) = LargeSize THEN {<<>>, <<Pt(0, 0)>>} ELSE {<<>>}

LocalCalled(aiColor, difficulty, lastMove, res) ==
  /\ rcall' = [op |-> "getLocalMove", before |-> rgrid, color |-> aiColor,
               difficulty |-> difficulty, lastMove |-> lastMove, res |-> res]
  /\ rgrid' = res.argGrid

CallGetLocalMove ==
  /\ rcall = NoCall
  /\ UNCHANGED svars
  /\ \E c \in StoneColor, d \in Range(Difficulties), lm \in LastMoves(rgrid),
        rnd \in RandomStreams(Len(rgrid)) :
       LocalCalled(c, d, lm, getLocalMove(rgrid, c, d, lm, rnd))

LocalCalledTwice(aiColor, difficulty, lastMove, res, again) ==
  /\ rcall' = [op |-> "getLocalMoveTwice", before |-> rgrid, color |-> aiColor,
               difficulty |-> difficulty, lastMove |-> lastMove, res |-> res,
               again |-> again]
  /\ rgrid' = again.argGrid

\* two invocations on the same board, colour and last move at the strongest
\* difficulty, each with its own Math.random() values
CallGetLocalMoveTwice ==
  /\ rcall = NoCall
  /\ UNCHANGED svars
  /\ \E c \in StoneColor, lm \in LastMoves(rgrid), i \in 1..NumStreams, j \in 1..NumStreams :
       /\ i < j
       /\ LocalCalledTwice(c, "grandmaster", lm,
            getLocalMove(rgrid, c, "grandmaster", lm, RandomStreamAt(i, Len(rgrid))),
            getLocalMove(rgrid, c, "grandmaster", lm, RandomStreamAt(j, Len(rgrid))))

AiInit == rgrid \in (AiBoards \cup LargeBoards) /\ rcall = NoCall /\ SessionInit

AiNext ==
  \/ CallGetLocalMove
  \/ CallGetLocalMoveTwice
  \/ CallMakeMove
  \/ CallGetGroupInfo

SpecAi == AiInit /\ [][AiNext]_vars

----------------------------------------------------------------------------
(* Specification of single calls of getAIMove                              *)

\* the boards offered to getAIMove: at most MaxRemoteStones stones
RemoteBoards == {b \in Boards : MovesCount(b) <= MaxRemoteStones}

\* the members x and y of a response: no number, or a coordinate on the
\* board or one step off it
JsonMembers == {NotNumber} \cup {JsonNumber(n) : n \in {-1, 0, GridSize - 1, GridSize}}

ResponseTexts ==
  {[form |-> f, pass |-> FALSE, x |-> NotNumber, y |-> NotNumber] :
     f \in {"empty", "malformed", "null"}}
  \cup {[form |-> "object", pass |-> p, x |-> x, y |-> y] :
          p \in BOOLEAN, x \in JsonMembers, y \in {NotNumber, JsonNumber(0), JsonNumber(GridSize)}}

Responses ==
  {[kind |-> "throw", text |-> [form |-> "empty", pass |-> FALSE, x |-> NotNumber, y |-> NotNumber]]}
  \cup {[kind |-> "text", text |-> t] : t \in ResponseTexts}

AiModes == {"local", "online"}

\* the calls of getAIMove for one value local of the local selector
AiMoveCalled(aiColor, difficulty, local) ==
  \E aiMode \in AiModes, onLine \in BOOLEAN, hasKey \in BOOLEAN, response \in Responses :
    /\ rcall' = [op |-> "getAIMove", before |-> rgrid, color |-> aiColor,
                 difficulty |-> difficulty, aiMode |-> aiMode, onLine |-> onLine,
                 hasKey |-> hasKey, response |-> response, local |-> local.move,
                 res |-> getAIMove(rgrid, aiMode, onLine, hasKey, response, local)]
    /\ rgrid' = local.argGrid

CallGetAIMove ==
  /\ rcall = NoCall
  /\ UNCHANGED svars
  /\ \E c \in StoneColor, d \in Range(Difficulties), rnd \in RandomStreams(Len(rgrid)) :
       AiMoveCalled(c, d, getLocalMove(rgrid, c, d, <<>>, rnd))

RemoteInit == rgrid \in RemoteBoards /\ rcall = NoCall /\ SessionInit

RemoteNext == CallGetAIMove

SpecRemote == RemoteInit /\ [][RemoteNext]_vars

----------------------------------------------------------------------------
(* Specification of sequences of makeMove calls by either colour, the      *)
(* caller keeping the returned board as the session does                   *)

PlayInit == rgrid = createEmptyGrid(GridSize) /\ rcall = NoCall /\ SessionInit

PlayMove ==
  \E x \in Coords, y \in Coords, c \in StoneColor :
     LET res == makeMove(rgrid, x, y, c) IN
     /\ UNCHANGED svars
     /\ rgrid' = (IF res.success THEN res.newGrid ELSE res.argGrid)
     /\ rcall' = [op |-> "play", success |-> res.success,
                  captures |-> res.captures]

PlayNext == PlayMove

SpecPlay == PlayInit /\ [][PlayNext]_vars

----------------------------------------------------------------------------
(* Specification of the App session *)

Init == SessionInit /\ rgrid = createEmptyGrid(GridSize) /\ rcall = NoCall

Next ==
  \/ OpenSetup
  \/ CancelSetup
  \/ StartGame
  \/ RestartGame
  \/ Click
  \/ HandlePass
  \/ AiResolve
  \/ AiForcePass
  \/ HandleUndo
  \/ ToggleEstimation
  \/ HandleResign
  \/ EnterReviewMode
  \/ JumpToMove
  \/ ResumeGame
  \/ LoadSavedGame
  \/ GoHome
  \/ BackHome

Spec == Init /\ [][Next]_vars

----------------------------------------------------------------------------
(* Specification of the App session in which every AI request in flight     *)
(* resolves: MaxSteps counts the human's steps only                         *)

\* the number of steps the human takes in this specification
MaxLiveSteps == 4

\* the state after construction, MaxLiveSteps human steps being left
LiveInit ==
  /\ appGrid = createEmptyGrid(HomeGridSize)
  /\ turn = Black
  /\ captures = [black |-> 0, white |-> 0]
  /\ history = <<>>
  /\ phase = "home"
  /\ config = NoConfig
  /\ scoreResult = NoScore
  /\ isAiThinking = FALSE
  /\ territoryMap = NoMap
  /\ isReviewMode = FALSE
  /\ reviewIndex = 0
  /\ currentTsumego = NoTsumego
  /\ tsumegoNode = NoNode
  /\ tsumegoStatus = "playing"
  /\ boardHistoryRef = <<>>
  /\ clickEnv = [grid |-> createEmptyGrid(HomeGridSize), hasMap |-> FALSE]
  /\ aiTasks = <<>>
  /\ aiRun = NoRun
  /\ lastExec = NoExec
  /\ steps = MaxSteps - MaxLiveSteps
  /\ shownAt = <<<<[grid |-> createEmptyGrid(HomeGridSize),
                    captures |-> [black |-> 0, white |-> 0], turn |-> Black]>>>>
  /\ rgrid = createEmptyGrid(GridSize)
  /\ rcall = NoCall

LiveNext ==
  \/ OpenSetup
  \/ CancelSetup
  \/ StartGame
  \/ RestartGame
  \/ Click
  \/ HandlePass
  \/ AiResolveLive
  \/ AiForcePass
  \/ HandleUndo
  \/ ToggleEstimation
  \/ HandleResign
  \/ EnterReviewMode
  \/ JumpToMove
  \/ ResumeGame
  \/ LoadSavedGame
  \/ GoHome
  \/ BackHome

\* Weak fairness of the two halves of performAiMove, WF_vars(AiResolveLive)
\* and WF_vars(AiForcePass) written out as <>[]ENABLED <<A>>_vars =>
\* []<><<A>>_vars, the enabling condition of each action being a state
\* predicate: AiResolveLive can take a step exactly when a request is in flight
\* and no performAiMove stands between its two executeMove calls (every request
\* has an answer, executeMove is total, and Render admits the request that may
\* follow, one having just left); AiForcePass exactly when one does.
\* getAIMove resolves, by its answer or by the local selector's after a
\* failure, and the rest of performAiMove runs in the same task.
AiResolveFair == <>[](Idle /\ aiTasks # <<>>) => []<><<AiResolveLive>>_vars

AiForcePassFair == <>[](aiRun # NoRun) => []<><<AiForcePass>>_vars

SpecLive == LiveInit /\ [][LiveNext]_vars /\ AiResolveFair /\ AiForcePassFair

----------------------------------------------------------------------------
(* Specification of a game continued after its first exchange was taken     *)
(* back: the human (black) played p, the AI answered q, and handleUndo       *)
(* removed both moves                                                       *)

\* the number of steps taken after the undo
MaxUndoSteps == 5

\* the board of the render before the undo
FirstExchange(p, q) ==
  SetCell(SetCell(createEmptyGrid(BoardSize), p.x, p.y, Black), q.x, q.y, White)

\* the state handleUndo leaves: the live state is that of a new game, and
\* handleIntersectionClick is still the callback of the render before the
\* undo, none of its dependencies having changed
UndoneInit ==
  /\ \E p \in ClickPts, q \in ClickPts :
       /\ p # q
       /\ clickEnv = [grid |-> FirstExchange(p, q), hasMap |-> FALSE]
  /\ appGrid = createEmptyGrid(BoardSize)
  /\ turn = Black
  /\ captures = [black |-> 0, white |-> 0]
  /\ history = <<>>
  /\ phase = "playing"
  /\ config = SetupConfig(Black, 0)
  /\ scoreResult = NoScore
  /\ isAiThinking = FALSE
  /\ territoryMap = NoMap
  /\ isReviewMode = FALSE
  /\ reviewIndex = 0
  /\ currentTsumego = NoTsumego
  /\ tsumegoNode = NoNode
  /\ tsumegoStatus = "playing"
  /\ boardHistoryRef = <<>>
  /\ aiTasks = <<>>
  /\ aiRun = NoRun
  /\ lastExec = NoExec
  /\ steps = MaxSteps - MaxUndoSteps
  /\ shownAt = <<<<[grid |-> createEmptyGrid(BoardSize),
                    captures |-> [black |-> 0, white |-> 0], turn |-> Black]>>>>
  /\ rgrid = createEmptyGrid(GridSize)
  /\ rcall = NoCall

UndoneNext ==
  \/ Click
  \/ HandlePass
  \/ AiResolve
  \/ AiForcePass
  \/ HandleUndo

SpecUndone == UndoneInit /\ [][UndoneNext]_vars

----------------------------------------------------------------------------
(* Specification of the setup dialog: startGame with every configuration   *)
(* the dialog can build                                                    *)

\* the board sizes of the dialog's buttons
SetupSizes == {9, 13, 19}

\* the values of the dialog's handicap slider
SetupHandicaps == 0..9

\* SetupModal.handleStart with the chosen board size
DialogConfig(size, color, handicap) ==
  [SetupConfig(color, handicap) EXCEPT !.boardSize = size]

DialogConfigs ==
  {DialogConfig(s, c, h) : s \in SetupSizes, c \in StoneColor, h \in SetupHandicaps}

\* SetupModal onStart = startGame, with any config the dialog builds
StartDialogGame ==
  /\ Idle /\ Step /\ phase = "setup"
  /\ \E newConfig \in DialogConfigs :
       /\ SetLive(StartGameLive(newConfig))
       /\ config' = newConfig
  /\ isReviewMode' = FALSE
  /\ UNCHANGED <<reviewIndex, aiRun>>
  /\ lastExec' = NoExec
  /\ Render(TRUE, TRUE, isAiThinking, aiTasks)

StartNext ==
  \/ OpenSetup
  \/ CancelSetup
  \/ StartDialogGame
  \/ GoHome

SpecStart == Init /\ [][StartNext]_vars

----------------------------------------------------------------------------
(* Specification of the App session with the puzzles *)

TsumegoNext ==
  \/ OpenSetup
  \/ CancelSetup
  \/ StartGame
  \/ RestartGame
  \/ Click
  \/ HandlePass
  \/ AiResolve
  \/ AiForcePass
  \/ HandleUndo
  \/ ToggleEstimation
  \/ HandleResign
  \/ EnterReviewMode
  \/ JumpToMove
  \/ ResumeGame
  \/ LoadSavedGame
  \/ GoHome
  \/ BackHome
  \/ OpenTsumegoList
  \/ CloseTsumegoList
  \/ StartTsumego
  \/ RestartTsumego
  \/ NextTsumego
  \/ TsumegoClick
  \/ TsumegoHint
  \/ BackToTsumegoList
  \/ ExitTsumego

SpecTsumego == Init /\ [][TsumegoNext]_vars

----------------------------------------------------------------------------
(* Vocabulary of the properties: groups, liberties and regions defined as   *)
(* sets, independently of the traversals above                              *)

OnBoardPts(grid) == {Pt(x, y) : x \in 0..(Len(grid) - 1), y \in 0..(Len(grid) - 1)}

Adjacent(p, q) ==
  \/ p.x = q.x /\ (p.y = q.y + 1 \/ q.y = p.y + 1)
  \/ p.y = q.y /\ (p.x = q.x + 1 \/ q.x = p.x + 1)

RECURSIVE Grow(_, _, _)
\* the points holding value v that are 4-connected to S through such points
Grow(grid, v, S) ==
  LET S2 == S \cup {q \in OnBoardPts(grid) :
                      Cell(grid, q.x, q.y) = v /\ \E s \in S : Adjacent(s, q)}
  IN IF S2 = S THEN S ELSE Grow(grid, v, S2)

GroupAt(grid, p) ==
  IF Cell(grid, p.x, p.y) = Null THEN {} ELSE Grow(grid, Cell(grid, p.x, p.y), {p})

LibertiesOf(grid, G) ==
  {q \in OnBoardPts(grid) : Cell(grid, q.x, q.y) = Null /\ \E s \in G : Adjacent(s, q)}

\* the opponent stones a stone of colour c placed at (x, y) takes off
CapturedBy(grid, x, y, c) ==
  LET g1 == SetCell(grid, x, y, c) IN
  UNION {GroupAt(g1, n) : n \in {n \in OnBoardPts(g1) :
            /\ Adjacent(n, Pt(x, y))
            /\ Cell(g1, n.x, n.y) = getOpponent(c)
            /\ LibertiesOf(g1, GroupAt(g1, n)) = {}}}

\* the board after placing and taking the captured stones off
AfterMove(grid, x, y, c) ==
  LET g1 == SetCell(grid, x, y, c)
      cap == CapturedBy(grid, x, y, c)
  IN [r \in 1..Len(grid) |-> [col \in 1..Len(grid) |->
        IF Pt(col - 1, r - 1) \in cap THEN Null ELSE g1[r][col]]]

IsSuicide(grid, x, y, c) ==
  /\ isOnBoard(x, y, Len(grid))
  /\ Cell(grid, x, y) = Null
  /\ CapturedBy(grid, x, y, c) = {}
  /\ LibertiesOf(SetCell(grid, x, y, c), GroupAt(SetCell(grid, x, y, c), Pt(x, y))) = {}

IsMakeMove == rcall.op = "makeMove"

----------------------------------------------------------------------------
(* Properties *)

\* C1: a placement that captures nothing and leaves the placed stone's group
\* without a liberty is rejected: success = false, captures = 0, and both the
\* returned board and the board passed in equal the board before the call.
C1_SuicideRejected ==
  (IsMakeMove /\ IsSuicide(rcall.before, rcall.x, rcall.y, rcall.color)) =>
     /\ rcall.res.success = FALSE
     /\ rcall.res.captures = 0
     /\ rcall.res.newGrid = rcall.before
     /\ rcall.res.argGrid = rcall.before
     /\ rgrid = rcall.before

\* a suicide that joins stones of the mover's colour (a group of two or more)
C1_Witness ==
  /\ IsMakeMove
  /\ IsSuicide(rcall.before, rcall.x, rcall.y, rcall.color)
  /\ Cardinality(GroupAt(SetCell(rcall.before, rcall.x, rcall.y, rcall.color),
                         Pt(rcall.x, rcall.y))) >= 2
  /\ ~rcall.res.success

\* C2: a successful makeMove returns the old board plus the stone at (x, y)
\* minus exactly the opponent groups adjacent to (x, y) that have no liberty
\* after the placement; dimensions are kept, no stone of the mover is removed,
\* and captures is the number of stones removed, each group counted once.
C2_SuccessEffect ==
  (IsMakeMove /\ rcall.res.success) =>
     LET b == rcall.before
         n == rcall.res.newGrid
         cap == CapturedBy(b, rcall.x, rcall.y, rcall.color)
     IN /\ n = AfterMove(b, rcall.x, rcall.y, rcall.color)
        /\ Len(n) = Len(b)
        /\ \A r \in 1..Len(n) : Len(n[r]) = Len(b[r])
        /\ \A p \in OnBoardPts(b) :
             Cell(b, p.x, p.y) = rcall.color => Cell(n, p.x, p.y) = rcall.color
        /\ \A p \in OnBoardPts(b) :
             (Cell(b, p.x, p.y) # Cell(n, p.x, p.y)) =>
                (p = Pt(rcall.x, rcall.y) \/ p \in cap)
        /\ rcall.res.captures = Cardinality(cap)

\* one move that takes two disjoint groups, one of which has several stones
C2_Witness ==
  /\ IsMakeMove
  /\ rcall.res.success
  /\ LET g1 == SetCell(rcall.before, rcall.x, rcall.y, rcall.color)
         cap == CapturedBy(rcall.before, rcall.x, rcall.y, rcall.color)
     IN /\ \E p \in cap, q \in cap : GroupAt(g1, p) # GroupAt(g1, q)
        /\ rcall.res.captures >= 3

\* C3: captures are resolved before the suicide check: a placement at an empty
\* on-board point that removes at least one opponent stone succeeds, even when
\* the placed stone's group had no liberty before the stones were taken off.
C3_CaptureBeforeSuicide ==
  (/\ IsMakeMove
   /\ isOnBoard(rcall.x, rcall.y, Len(rcall.before))
   /\ Cell(rcall.before, rcall.x, rcall.y) = Null
   /\ CapturedBy(rcall.before, rcall.x, rcall.y, rcall.color) # {}) =>
     /\ rcall.res.success
     /\ rcall.res.captures >= 1

\* a capture by a stone whose group has no liberty until the stones come off
C3_Witness ==
  /\ IsMakeMove
  /\ isOnBoard(rcall.x, rcall.y, Len(rcall.before))
  /\ Cell(rcall.before, rcall.x, rcall.y) = Null
  /\ CapturedBy(rcall.before, rcall.x, rcall.y, rcall.color) # {}
  /\ LET g1 == SetCell(rcall.before, rcall.x, rcall.y, rcall.color)
     IN LibertiesOf(g1, GroupAt(g1, Pt(rcall.x, rcall.y))) = {}
  /\ rcall.res.success

\* C4: a point outside 0..N-1 in either coordinate, or a cell already holding
\* a stone of either colour, gives success = false, captures = 0 and the
\* unchanged board (the call returns a result: it does not throw).
C4_OffBoardOrOccupied ==
  (/\ IsMakeMove
   /\ \/ ~(rcall.x \in 0..(Len(rcall.before) - 1))
      \/ ~(rcall.y \in 0..(Len(rcall.before) - 1))
      \/ Cell(rcall.before, rcall.x, rcall.y) \in StoneColor) =>
     /\ rcall.res.success = FALSE
     /\ rcall.res.captures = 0
     /\ rcall.res.newGrid = rcall.before
     /\ rgrid = rcall.before

\* a call on a cell holding a stone of the OTHER colour that has no liberty:
\* overwriting it would be a capture-free legal-looking placement
C4_Witness ==
  /\ IsMakeMove
  /\ isOnBoard(rcall.x, rcall.y, Len(rcall.before))
  /\ Cell(rcall.before, rcall.x, rcall.y) = getOpponent(rcall.color)
  /\ ~rcall.res.success

\* a call with a coordinate off the board
C4_WitnessOffBoard ==
  /\ IsMakeMove
  /\ ~isOnBoard(rcall.x, rcall.y, Len(rcall.before))
  /\ ~rcall.res.success

\* C6: getGroupInfo returns as group exactly the maximal set of same-colour
\* stones 4-connected to (x, y), as liberties exactly the empty points adjacent
\* to a stone of that group, no point twice in either; both empty on an empty
\* cell.
C6_GroupInfoExact ==
  (rcall.op = "getGroupInfo") =>
     LET G == GroupAt(rcall.before, Pt(rcall.x, rcall.y))
         r == rcall.res
     IN /\ Range(r.group) = G
        /\ Len(r.group) = Cardinality(G)
        /\ Range(r.liberties) = LibertiesOf(rcall.before, G)
        /\ Len(r.liberties) = Cardinality(LibertiesOf(rcall.before, G))
        /\ (Cell(rcall.before, rcall.x, rcall.y) = Null =>
              (r.group = <<>> /\ r.liberties = <<>>))

\* a group of three or more stones with a liberty that touches two of them
C6_Witness ==
  /\ rcall.op = "getGroupInfo"
  /\ Len(rcall.res.group) >= 3
  /\ \E l \in Range(rcall.res.liberties) :
       \E s \in Range(rcall.res.group), t \in Range(rcall.res.group) :
          s # t /\ Adjacent(s, l) /\ Adjacent(t, l)

\* C5: from the empty board, after any sequence of successful makeMove calls
\* by either colour, every group of stones on the board has a liberty.
C5_EveryGroupHasLiberty ==
  \A p \in OnBoardPts(rgrid) :
     Cell(rgrid, p.x, p.y) # Null => LibertiesOf(rgrid, GroupAt(rgrid, p)) # {}

\* a position reached by a capture of two or more stones, with both colours
\* left on the board
C5_Witness ==
  /\ rcall.op = "play"
  /\ rcall.success
  /\ rcall.captures >= 2
  /\ \E p \in OnBoardPts(rgrid), q \in OnBoardPts(rgrid) :
       Cell(rgrid, p.x, p.y) = Black /\ Cell(rgrid, q.x, q.y) = White

\* the empty region around an empty point, and the colours bordering it
RegionAt(grid, p) == Grow(grid, Null, {p})

BorderColors(grid, R) ==
  {Cell(grid, q.x, q.y) : q \in {q \in OnBoardPts(grid) :
      Cell(grid, q.x, q.y) # Null /\ \E r \in R : Adjacent(r, q)}}

OwnerTag(grid, p) ==
  LET bc == BorderColors(grid, RegionAt(grid, p)) IN
  IF bc = {Black} THEN 1 ELSE IF bc = {White} THEN 2 ELSE 0

\* C10: calculateTerritory tags an empty region 1 (black) or 2 (white) exactly
\* when all the stones bordering it have that colour, and 0 when both colours
\* or no stone border it; each area is that colour's stones plus the empty
\* points tagged for it, so black + white never exceeds N * N.
C10_TerritoryExact ==
  (rcall.op = "calculateTerritory") =>
     LET g == rcall.before
         r == rcall.res
         pts == OnBoardPts(g)
         stones(c) == {p \in pts : Cell(g, p.x, p.y) = c}
         tagged(t) == {p \in pts : Cell(r.territoryMap, p.x, p.y) = t}
     IN /\ \A p \in pts :
             Cell(r.territoryMap, p.x, p.y) =
               (IF Cell(g, p.x, p.y) = Null THEN OwnerTag(g, p) ELSE 0)
        /\ r.black = Cardinality(stones(Black)) + Cardinality(tagged(1))
        /\ r.white = Cardinality(stones(White)) + Cardinality(tagged(2))
        /\ r.black + r.white <= Len(g) * Len(g)
        /\ (stones(Black) \cup stones(White) = {} => (r.black = 0 /\ r.white = 0))

C10_Witness ==
  /\ rcall.op = "calculateTerritory"
  /\ LET g == rcall.before
         m == rcall.res.territoryMap
     IN /\ \E p \in OnBoardPts(g) : Cell(m, p.x, p.y) = 1
        /\ \E p \in OnBoardPts(g) : Cell(m, p.x, p.y) = 2
        /\ \E p \in OnBoardPts(g) :
             /\ Cell(g, p.x, p.y) = Null
             /\ BorderColors(g, RegionAt(g, p)) = {Black, White}
             /\ Cell(m, p.x, p.y) = 0

----------------------------------------------------------------------------
(* Properties of the App session *)

\* the positions of the non-pass moves of a move history
NonPassMoves(h) == {i \in 1..Len(h) : ~h[i].pass}

\* the board right after move i of the move history h, by the rules
BoardAfter(h, i, cfg) == replayGame(SubSeq(h, 1, i), cfg).grid

\* C7: within a game, an accepted non-pass move never leaves a board equal to
\* the board that followed an earlier non-pass move still in the move history
\* (the recreating move is rejected), whatever session operations came before
C7_NoRecreatedBoard ==
  (lastExec.op = "move" /\ lastExec.ret /\ phase = "playing" /\ ~isReviewMode) =>
    \A i \in NonPassMoves(history) :
      i < Len(history) => BoardAfter(history, i, config) # appGrid

\* the saved ko game was loaded and resumed, and white's retake at (0, 1) was
\* accepted: the board is again the board after move 4
C7_KoRetakenAfterResume ==
  /\ phase = "playing" /\ ~isReviewMode
  /\ lastExec.op = "move" /\ lastExec.ret
  /\ history = Append(KoGame.history, Move(0, 1, White, 1))
  /\ appGrid = BoardAfter(history, 4, config)

\* C8: while the phase is playing and review mode is off, boardHistoryRef has
\* one entry per non-pass move of the move history, in order, the entry of a
\* move being the serialization of the board right after it
C8_SuperkoHistoryMatchesMoves ==
  (phase = "playing" /\ ~isReviewMode) =>
    /\ Len(boardHistoryRef) = Cardinality(NonPassMoves(history))
    /\ \A i \in NonPassMoves(history) :
         boardHistoryRef[Cardinality({j \in NonPassMoves(history) : j <= i})]
           = Stringify(BoardAfter(history, i, config))

\* the saved ko game was loaded and resumed: five moves are in the history
\* and no board is on record
C8_ResumedWithoutRecord ==
  /\ phase = "playing" /\ ~isReviewMode
  /\ history = KoGame.history
  /\ boardHistoryRef = <<>>

\* C9: a non-pass executeMove that is rejected, because makeMove fails or
\* because the superko guard fires, returns false and leaves the grid, the
\* move history, the turn, the capture tallies and the superko history as
\* they were before the call
C9_RejectedMoveChangesNothing ==
  [][(lastExec'.op = "move" /\ lastExec'.why # "ok") =>
       /\ ~lastExec'.ret
       /\ UNCHANGED <<appGrid, history, turn, captures, boardHistoryRef>>]_vars

\* a move has just been rejected by the superko guard, with earlier boards on
\* record
C9_Witness ==
  /\ lastExec.op = "move" /\ lastExec.why = "superko" /\ ~lastExec.ret
  /\ Len(boardHistoryRef) > 0

----------------------------------------------------------------------------
(* Properties of the local move selector *)

\* C12: at difficulty 'grandmaster', a second invocation of the selector on
\* the same board, AI colour and last move returns what the first returned:
\* the same point, or PASS both times
C12_GrandmasterDeterministic ==
  (rcall.op = "getLocalMoveTwice" /\ rcall.difficulty = "grandmaster") =>
     rcall.again.move = rcall.res.move

\* the grandmaster selector was invoked twice and returned a point both
\* times, out of at least two candidates whose best two scores are equal
C12_Witness ==
  /\ rcall.op = "getLocalMoveTwice" /\ rcall.difficulty = "grandmaster"
  /\ ~rcall.res.move.pass /\ ~rcall.again.move.pass
  /\ Len(rcall.res.validMoves) >= 2
  /\ rcall.res.validMoves[1].score = rcall.res.validMoves[2].score

\* the empty points where a stone of colour c is no suicide
LegalPoints(grid, c) ==
  {p \in OnBoardPts(grid) : Cell(grid, p.x, p.y) = Null /\ ~IsSuicide(grid, p.x, p.y, c)}

\* C13: when no empty point of the board admits a successful makeMove for
\* the AI colour (a full board included), the selector returns PASS
C13_PassWithoutLegalPoint ==
  (rcall.op = "getLocalMove" /\ LegalPoints(rcall.before, rcall.color) = {}) =>
     /\ rcall.res.move = PassAnswer
     /\ rcall.res.validMoves = <<>>

\* the selector passed on a board that has an empty point, every empty
\* point being a suicide for the AI colour
C13_Witness ==
  /\ rcall.op = "getLocalMove"
  /\ LegalPoints(rcall.before, rcall.color) = {}
  /\ \E p \in OnBoardPts(rcall.before) : Cell(rcall.before, p.x, p.y) = Null
  /\ rcall.res.move = PassAnswer

\* C14: a point returned by the selector is an empty on-board cell of the
\* board it was given, where a stone of the AI colour is not a suicide
C14_ReturnedPointLegal ==
  (rcall.op = "getLocalMove" /\ ~rcall.res.move.pass) =>
     /\ isOnBoard(rcall.res.move.x, rcall.res.move.y, Len(rcall.before))
     /\ Cell(rcall.before, rcall.res.move.x, rcall.res.move.y) = Null
     /\ ~IsSuicide(rcall.before, rcall.res.move.x, rcall.res.move.y, rcall.color)

\* the selector returned a point on a board where another empty point is a
\* suicide for the AI colour
C14_Witness ==
  /\ rcall.op = "getLocalMove" /\ ~rcall.res.move.pass
  /\ \E p \in OnBoardPts(rcall.before) : IsSuicide(rcall.before, p.x, p.y, rcall.color)

\* the N of the claim for each difficulty, n being the size of the pool
ClaimedTopN(difficulty, n) ==
  CASE difficulty = "novice" -> n
    [] difficulty = "entry" -> 20
    [] difficulty = "beginner" -> 10
    [] difficulty = "elementary" -> 5
    [] difficulty = "intermediate" -> 3
    [] difficulty = "advanced" -> 2
    [] difficulty = "master" -> 2
    [] difficulty = "grandmaster" -> 1

\* the scored candidates that have the point of the answer m
ScoredAs(v, m) == {i \in 1..Len(v) : v[i].x = m.x /\ v[i].y = m.y}

\* the candidate i of v has fewer than n candidates scored above it
AmongTop(v, i, n) == Cardinality({j \in 1..Len(v) : v[j].score > v[i].score}) < n

BoardInEndgame(grid) ==
  Cardinality({p \in OnBoardPts(grid) : Cell(grid, p.x, p.y) # Null}) * 100
    > Len(grid) * Len(grid) * 85

\* the best score of the call, in points
BestScoreBelow(v, t) == \A i \in 1..Len(v) : v[i].score < t * RandomUnit

----------------------------------------------------------------------------
(* Properties of getAIMove *)

\* the response carries neither a pass signal nor a point of the board
NoPassNoBoardPoint(response, size) ==
  \/ response.kind = "throw"
  \/ response.text.form # "object"
  \/ /\ ~response.text.pass
     /\ ~(/\ response.text.x.isNumber /\ response.text.y.isNumber
          /\ response.text.x.value \in 0..(size - 1)
          /\ response.text.y.value \in 0..(size - 1))

\* C17: in online mode, when the remote delegate is unavailable (offline, no
\* API key), throws, or returns data that is neither a pass signal nor a
\* point of the board, getAIMove returns the decision of the local selector
\* for the same inputs, and does not throw
C17_FallbackToLocal ==
  (/\ rcall.op = "getAIMove" /\ rcall.aiMode = "online"
   /\ \/ ~rcall.onLine
      \/ ~rcall.hasKey
      \/ NoPassNoBoardPoint(rcall.response, Len(rcall.before))) =>
     /\ ~rcall.res.threw
     /\ rcall.res.value = rcall.local

\* online with a key, the delegate answered with two numbers that are no
\* point of the board, and getAIMove returned them
C17_OffBoardAnswerReturned ==
  /\ rcall.op = "getAIMove" /\ rcall.aiMode = "online" /\ rcall.onLine /\ rcall.hasKey
  /\ rcall.response.kind = "text" /\ rcall.response.text.form = "object"
  /\ ~rcall.response.text.pass
  /\ ~rcall.res.threw /\ ~rcall.res.value.pass
  /\ ~isOnBoard(rcall.res.value.x, rcall.res.value.y, Len(rcall.before))
  /\ rcall.res.value # rcall.local

----------------------------------------------------------------------------
(* Properties of the session: the move history as the game record *)

\* one step of the replay of the claim: the move is played with makeMove on
\* the position reached so far, its captures going to the mover
RecordStep(acc, move, res) ==
  IF res.success
    THEN [grid |-> res.newGrid,
          captures |-> [acc.captures EXCEPT ![move.color] = @ + res.captures]]
    ELSE acc

RECURSIVE RecordReplay(_, _, _)
\* the position after the moves i.. of h, played in order from acc, passes
\* skipped
RecordReplay(h, i, acc) ==
  IF i > Len(h) THEN acc
  ELSE IF h[i].pass THEN RecordReplay(h, i + 1, acc)
  ELSE RecordReplay(h, i + 1,
         RecordStep(acc, h[i], makeMove(acc.grid, h[i].x, h[i].y, h[i].color)))

\* the position the move history h determines on a board of side size
PositionOf(h, size) ==
  RecordReplay(h, 1, [grid |-> createEmptyGrid(size),
                      captures |-> [black |-> 0, white |-> 0]])

\* C19: whenever the phase is 'playing' and review mode is off, the grid and
\* both capture tallies are those of the replay of the current move history,
\* in order, from an empty board of the configured size, with makeMove
\* (passes skipped)
C19_HistoryDeterminesPosition ==
  (phase = "playing" /\ ~isReviewMode) =>
     /\ appGrid = PositionOf(history, config.boardSize).grid
     /\ captures = PositionOf(history, config.boardSize).captures

\* a move was just accepted in a game without handicap: the move history
\* holds this one move, and three stones are on the board
C19_UndoneStonesBack ==
  /\ phase = "playing" /\ ~isReviewMode /\ config.handicap = 0
  /\ lastExec.op = "move" /\ lastExec.ret
  /\ Len(history) = 1 /\ ~history[1].pass /\ history[1].color = config.playerColor
  /\ MovesCount(appGrid) = 3

\* C20: a pass appends exactly one Move with x = -1, y = -1, pass = true,
\* captures = 0 and the passing colour to the move history, gives the turn to
\* the other colour, and leaves the grid, both capture tallies and the
\* superko history as they were
C20_PassFrame ==
  [][(lastExec'.op = "pass") =>
       /\ \E c \in StoneColor :
            /\ history' = Append(history, [x |-> -1, y |-> -1, color |-> c,
                                           captures |-> 0, pass |-> TRUE])
            /\ turn' = getOpponent(c)
       /\ UNCHANGED <<appGrid, captures, boardHistoryRef>>]_vars

\* a pass was just made after other moves, with stones on the board and
\* boards on the superko record
C20_Witness ==
  /\ lastExec.op = "pass"
  /\ Len(history) > 1 /\ history[Len(history)].pass
  /\ turn = getOpponent(history[Len(history)].color)
  /\ MovesCount(appGrid) > 0
  /\ Len(boardHistoryRef) > 0

----------------------------------------------------------------------------
(* C21: handicap placement by startGame *)

StonesOf(grid, color) == {p \in OnBoardPts(grid) : Cell(grid, p.x, p.y) = color}

\* the state startGame must leave for cfg: with a handicap h > 0 exactly h
\* black stones, all on star points, h black moves recorded and white to move;
\* with none an empty board, an empty history and black to move
StartedAsClaimed(cfg, grid, h, t) ==
  IF cfg.handicap > 0
    THEN /\ Cardinality(StonesOf(grid, Black)) = cfg.handicap
         /\ StonesOf(grid, White) = {}
         /\ StonesOf(grid, Black) \subseteq Range(getHoshiPoints(cfg.boardSize))
         /\ Len(h) = cfg.handicap
         /\ \A i \in 1..Len(h) : h[i].color = Black /\ ~h[i].pass
         /\ t = White
    ELSE /\ StonesOf(grid, Black) \cup StonesOf(grid, White) = {}
         /\ h = <<>>
         /\ t = Black

\* C21: every step from the setup dialog into a game (startGame) leaves, for
\* every board size 9, 13, 19 and every handicap h of 0..9, exactly h black
\* stones on distinct star points, exactly h black moves in the history and
\* white to move when h > 0, and an empty board, an empty history and black to
\* move when h = 0.
C21_HandicapPlaced ==
  [][(phase = "setup" /\ phase' = "playing") =>
       StartedAsClaimed(config', appGrid', history', turn')]_vars

\* a 9x9 or 13x13 game started with a handicap above five holds five stones
C21_FewerStonesThanHandicap ==
  /\ phase = "playing"
  /\ config.boardSize \in {9, 13}
  /\ config.handicap = 6
  /\ Cardinality(StonesOf(appGrid, Black)) = 5
  /\ Len(history) = 5
  /\ turn = White

----------------------------------------------------------------------------
(* C22: the AI answers on its turn *)

\* it is the AI's turn in a running game, the AI playing color
AiToMove(color) ==
  /\ phase = "playing" /\ ~isReviewMode /\ config # NoConfig
  /\ turn # config.playerColor /\ turn = color

\* an executeMove call has just committed a move of color, stone or pass, and
\* given the turn to the other colour
MoveCommitted(color) ==
  /\ lastExec.op \in {"move", "pass"} /\ lastExec.ret
  /\ Len(history) > 0 /\ history[Len(history)].color = color
  /\ turn = getOpponent(color)

----------------------------------------------------------------------------
(* C23: handleUndo *)

\* what a step of handleUndo must do to a history of n moves, k being left:
\* two moves go, or one when one move beyond the handicap stones exists; no
\* handicap stone goes; grid, captures and turn are those shown when the
\* history last had k moves
UndoneAsClaimed(n, k) ==
  /\ \/ k = n - 2
     \/ k = n - 1 /\ n = config.handicap + 1
  /\ k >= config.handicap
  /\ history' = SubSeq(history, 1, k)
  /\ shownAt[k + 1] # <<>> =>
       [grid |-> appGrid', captures |-> captures', turn |-> turn'] = shownAt[k + 1][1]

\* C23: every handleUndo step of a normal game (AI not thinking, review mode
\* off) removes the last two moves of the history, or only one when just one
\* move beyond the handicap stones exists, removes no handicap stone, and
\* leaves the grid, both capture tallies and the turn exactly as the session
\* had them when the history last had that length.
C23_UndoRestoresShown ==
  [][HandleUndo => UndoneAsClaimed(Len(history), Len(history'))]_vars

\* the first exchange of a game has been taken back: the state SpecUndone
\* starts in
C23_FirstExchangeTakenBack ==
  /\ \E p \in ClickPts, q \in ClickPts :
       /\ p # q
       /\ clickEnv = [grid |-> FirstExchange(p, q), hasMap |-> FALSE]
  /\ appGrid = createEmptyGrid(BoardSize) /\ turn = Black
  /\ captures = [black |-> 0, white |-> 0] /\ history = <<>>
  /\ phase = "playing" /\ config = SetupConfig(Black, 0)
  /\ scoreResult = NoScore /\ ~isAiThinking /\ territoryMap = NoMap
  /\ ~isReviewMode /\ boardHistoryRef = <<>> /\ aiTasks = <<>> /\ aiRun = NoRun
  /\ lastExec = NoExec
  /\ shownAt = <<<<[grid |-> appGrid, captures |-> captures, turn |-> turn]>>>>

\* an undo of two moves has brought back a board of two stones, while the
\* board shown when the history last had two moves held the two stones taken
\* back earlier as well: the board before this undo holds five stones, of
\* which the history accounts for four at most
C23_UndoShowsAnotherBoard ==
  /\ phase = "playing" /\ ~isReviewMode /\ lastExec = NoExec
  /\ steps = MaxSteps
  /\ Len(history) = 2 /\ ~history[1].pass /\ ~history[2].pass
  /\ Cardinality(StonesOf(appGrid, Black) \cup StonesOf(appGrid, White)) = 2
  /\ Cardinality(StonesOf(clickEnv.grid, Black) \cup StonesOf(clickEnv.grid, White)) = 5

----------------------------------------------------------------------------
(* C24: two passes in a row *)

\* the final score of the position shown: territory of the grid, the capture
\* tallies and the komi of the game
FinalScoreShown == calculateScore(CurEnv, Live, TRUE).scoreResult

\* C24: every executed pass whose predecessor in the history is a pass sets
\* the phase to 'scoring' and the score result to the final score of the
\* current grid; every executed pass whose predecessor is not a pass leaves
\* the phase as it was.
C24_DoublePassEndsGame ==
  [][(lastExec'.op = "pass") =>
       IF LastIsPass(history)
         THEN phase' = "scoring" /\ scoreResult' = FinalScoreShown
         ELSE phase' = phase]_vars

\* two passes of the same colour end the history of a game still being played
C24_TwoPassesNoScoring ==
  /\ phase = "playing"
  /\ lastExec.op = "pass"
  /\ Len(history) > 1
  /\ history[Len(history)].pass /\ history[Len(history) - 1].pass
  /\ history[Len(history)].color = history[Len(history) - 1].color
  /\ scoreResult = NoScore

----------------------------------------------------------------------------
(* C25: colours alternate in the history *)

\* C25: in a game (a config is set), the entries of the history after the
\* handicap stones alternate in colour: no two consecutive entries have the
\* same colour, whatever the interleaving of the human's actions with the AI
\* requests in flight.
C25_ColoursAlternate ==
  (config # NoConfig) =>
     \A i \in (config.handicap + 1)..(Len(history) - 1) :
        history[i].color # history[i + 1].color

\* the history of a game in which the human is to move consists of two stones
\* of the AI's colour
C25_AiMovedTwice ==
  /\ phase = "playing" /\ ~isReviewMode /\ config # NoConfig
  /\ turn = config.playerColor /\ aiTasks = <<>> /\ aiRun = NoRun
  /\ config.handicap = 0 /\ Len(history) = 2
  /\ ~history[Len(history)].pass /\ ~history[Len(history) - 1].pass
  /\ history[Len(history)].color = getOpponent(config.playerColor)
  /\ history[Len(history) - 1].color = getOpponent(config.playerColor)

----------------------------------------------------------------------------
(* C26: an ended game is frozen *)

Ended(ph) == ph \in {"scoring", "finished"}

\* a handler other than a move or pass has run in review mode: the review
\* controls (jumpToMove)
ReviewNavigation == isReviewMode /\ lastExec'.op = "none"

\* C26: every step that starts and ends in phase 'scoring' or 'finished', and
\* is not a navigation in review mode, leaves the grid, the move history and
\* the capture tallies unchanged; a step that starts a new game or loads one
\* leaves these phases.
C26_EndedGameFrozen ==
  [][(Ended(phase) /\ Ended(phase') /\ ~ReviewNavigation) =>
       UNCHANGED <<appGrid, history, captures>>]_vars

\* the game is finished by resignation and a stone has been committed since
C26_MoveAfterResignation ==
  /\ phase = "finished" /\ ~isReviewMode
  /\ scoreResult.winner # "none"
  /\ lastExec = [op |-> "move", ret |-> TRUE, why |-> "ok"]
  /\ Len(history) > 0 /\ ~history[Len(history)].pass
  /\ Cell(appGrid, history[Len(history)].x, history[Len(history)].y)
       = history[Len(history)].color

----------------------------------------------------------------------------
(* C27: resignation *)

\* C27: every step that takes a game from phase 'playing' to phase 'finished'
\* (the human's resignation, on either player's turn) records as the winner
\* the AI's colour, the opposite of config.playerColor.
C27_ResignationWinnerIsAi ==
  [][(phase = "playing" /\ phase' = "finished") =>
       scoreResult'.winner = getOpponent(config.playerColor)]_vars

\* the human has resigned while the AI was to move and is recorded as winner
C27_ResignedHumanWins ==
  /\ phase = "finished" /\ config # NoConfig
  /\ lastExec = NoExec /\ isAiThinking
  /\ turn = getOpponent(config.playerColor)
  /\ scoreResult.winner = config.playerColor

----------------------------------------------------------------------------
(* C28: the territory map shown *)

\* C28: whenever a territory map is set while a board of a game is shown, it
\* is the map calculateTerritory returns for the grid shown.
C28_MapOfShownGrid ==
  (territoryMap # NoMap /\ phase \in {"playing", "scoring", "finished"}) =>
     territoryMap = calculateTerritory(appGrid).territoryMap

\* a stone has just been played in a game and the map of the board before it
\* is still set
C28_MapOfEarlierBoard ==
  /\ phase = "playing" /\ ~isReviewMode
  /\ lastExec = [op |-> "move", ret |-> TRUE, why |-> "ok"]
  /\ territoryMap # NoMap
  /\ territoryMap # calculateTerritory(appGrid).territoryMap

----------------------------------------------------------------------------
(* C29: restart from the end-of-game panel *)

\* C29: every step of the restart button of the end-of-game panel (phase
\* 'scoring' after a double pass, or 'finished' after a resignation) starts a
\* fresh game with the same configuration: phase 'playing', the board and the
\* history holding the handicap stones only, both capture tallies 0, no score
\* result and an empty superko history.
C29_RestartStartsFreshGame ==
  [][RestartGame =>
       /\ phase' = "playing"
       /\ config' = config
       /\ StartedAsClaimed(config, appGrid', history', turn')
       /\ captures' = [black |-> 0, white |-> 0]
       /\ scoreResult' = NoScore
       /\ boardHistoryRef' = <<>>]_vars

\* a game ended by two passes shows its final score: the end-of-game panel
\* with the restart button is up in phase 'scoring'
C29_EndedByDoublePass ==
  /\ phase = "scoring" /\ ~isReviewMode /\ config # NoConfig
  /\ scoreResult # NoScore
  /\ lastExec = [op |-> "pass", ret |-> TRUE, why |-> "ok"]
  /\ Len(history) = config.handicap + 2
  /\ history[Len(history)].pass /\ history[Len(history) - 1].pass
  /\ aiTasks = <<>> /\ aiRun = NoRun

----------------------------------------------------------------------------
(* C30: a puzzle just started is playable *)

\* the points of the problem's board that hold none of its initial stones and
\* where a black stone is a legal move
LegalEmptyPts(problem) ==
  {p \in OnBoardPts(InitialGrid(problem)) :
     /\ Cell(InitialGrid(problem), p.x, p.y) = Null
     /\ makeMove(InitialGrid(problem), p.x, p.y, Black).success}

\* the cells of grid are exactly the initial stones of the problem
HoldsInitialStones(grid, problem) ==
  /\ Len(grid) = problem.boardSize
  /\ \A p \in OnBoardPts(grid) :
       Cell(grid, p.x, p.y) =
         IF \E i \in 1..Len(problem.initialStones) :
              problem.initialStones[i].x = p.x /\ problem.initialStones[i].y = p.y
           THEN (CHOOSE st \in Range(problem.initialStones) :
                   st.x = p.x /\ st.y = p.y).color
           ELSE Null

\* the state the claim describes for a puzzle of the problem with this id
PlayableAsClaimed(id, grid, h, status, t, review, thinking) ==
  \E i \in 1..Len(tsumegoProblems) :
    /\ tsumegoProblems[i].id = id
    /\ HoldsInitialStones(grid, tsumegoProblems[i])
    /\ h = <<>>
    /\ status = "playing"
    /\ t = Black
    /\ ~review
    /\ ~thinking

\* C30: after startTsumego(problem), from whatever state it is called in, the
\* grid holds exactly the problem's initial stones, the history is empty, the
\* status is 'playing', it is black's turn, review mode is off and the AI is
\* not marked as thinking
C30_PuzzleStartsPlayable ==
  [][(StartTsumego \/ RestartTsumego \/ NextTsumego)
       => PlayableAsClaimed(currentTsumego', appGrid', history', tsumegoStatus', turn',
                            isReviewMode', isAiThinking')]_vars

\* a puzzle has just been started from the list, after a game was left in
\* review mode through the home screen: the board is not interactive and
\* handleIntersectionClick returns at once
C30_PuzzleStartedInReview ==
  /\ phase = "tsumego-playing"
  /\ lastExec = NoExec
  /\ history = <<>>
  /\ tsumegoStatus = "playing"
  /\ turn = Black
  /\ \E i \in 1..Len(tsumegoProblems) :
       /\ currentTsumego = tsumegoProblems[i].id
       /\ HoldsInitialStones(appGrid, tsumegoProblems[i])
       /\ LegalEmptyPts(tsumegoProblems[i]) \cap TsumegoClickPts # {}
  /\ isReviewMode
  /\ ~isAiThinking

\* a puzzle has just been started while the request of the game left behind
\* is still in flight, the AI being marked as thinking
C30_PuzzleStartedWhileThinking ==
  /\ phase = "tsumego-playing"
  /\ lastExec = NoExec
  /\ history = <<>>
  /\ tsumegoStatus = "playing"
  /\ ~isReviewMode
  /\ isAiThinking
  /\ aiTasks # <<>>

\* a puzzle started from the fresh application is played: the click on a
\* legal empty point was applied as black's move
C30_PuzzleMovePlayed ==
  /\ phase = "tsumego-playing"
  /\ lastExec = [op |-> "tsumego", ret |-> TRUE, why |-> "ok"]
  /\ Len(history) = 1
  /\ history[1].color = Black
  /\ Cell(appGrid, history[1].x, history[1].y) = Black

====
